---- MODULE Spec2Model ----
(***************************************************************************)
(* Verification model of two components of the parallel-execution         *)
(* substrate:                                                              *)
(*   - DependencyAwareUniformPartitioner::partition                        *)
(*       (sharded_block_executor/block_partitioner/                        *)
(*        dependency_aware_partitioner.rs)                                 *)
(*   - MVHashMap, the routing facade over VersionedData / VersionedCode    *)
(*       (mvhashmap/src/lib.rs)                                            *)
(* Spec    is the partitioner run on one block.                            *)
(* SpecMVS is the multi-version store under arbitrary calls of workers.    *)
(***************************************************************************)
EXTENDS Integers, Sequences, FiniteSets, TLC

(***************************************************************************)
(* Bounds of the model.                                                    *)
(***************************************************************************)
MaxTxns == 4
NumLocations == 1
NumSenders == 2
MaxShards == 4

(***************************************************************************)
(* Option<T>: None is the empty tuple, Some(x) the one-element tuple.      *)
(***************************************************************************)
None == <<>>
Some(x) == <<x>>
IsSome(o) == o # None
Unwrap(o) == o[1]

(***************************************************************************)
(* HashMap helpers: a map is a function on its key set.                    *)
(***************************************************************************)
\* HashMap::new()
EmptyMap == <<>>
\* HashMap::insert(k, v): insert or replace.
MapInsert(m, k, v) == (k :> v) @@ m
\* HashMap::get(k)
MapGet(m, k) == IF k \in DOMAIN m THEN Some(m[k]) ELSE None
\* map.entry(k).or_insert_with(Vec::new).push(x)
MapPushBackMut(m, k, x) == (k :> <<x>>) @@ m

\* An insertion at the front of the list.
MapPushFront(m, k, x) == (k :> (<<x>> \o (IF k \in DOMAIN m THEN m[k] ELSE <<>>))) @@ m

MapPushBack(m, k, x) == (k :> Append(IF k \in DOMAIN m THEN m[k] ELSE <<>>, x)) @@ m

(***************************************************************************)
(* Partitioner input: analyzed transactions.                               *)
(***************************************************************************)
Locations == 1..NumLocations
Senders == 1..NumSenders

\* What an AnalyzedTransaction exposes besides its identity.
TxnBodies == [sender : {None} \cup {Some(s) : s \in Senders},
              read_hints : SUBSET Locations,
              write_hints : SUBSET Locations]

\* A block: every transaction is a distinct value (its hash is unique).
MakeBlock(bodies) ==
    [p \in 1..Len(bodies) |->
        [hash |-> p,
         sender |-> bodies[p].sender,
         read_hints |-> bodies[p].read_hints,
         write_hints |-> bodies[p].write_hints]]

\* transactions[index] of the 0-based Vec.
TxnAt(txns, index) == txns[index + 1]

Accepted == "Accepted"
Discarded == "Discarded"

VARIABLES
    transactions,            \* input: Vec<AnalyzedTransaction>
    num_shards,              \* input: usize
    pc,                      \* position inside partition
    index,                   \* loop variable of the current loop
    txns_per_shard,          \* local of partition
    graph,                   \* local of partition: DependencyGraph
    txn_statuses,            \* local: HashMap<usize, TxnPartitioningStatus>
    discarded_senders,       \* local: HashSet<sender>
    accpeted_transactions,   \* result: HashMap<usize, Vec<AnalyzedTransaction>>
    rejected_transactions    \* result: HashMap<usize, Vec<AnalyzedTransaction>>

pvars == <<transactions, num_shards, pc, index, txns_per_shard, graph,
           txn_statuses, discarded_senders, accpeted_transactions,
           rejected_transactions>>

\* The multi-version store (MVHashMap) and what its callers observed.
VARIABLES
    data,        \* MVHashMap.data: VersionedData<K>
    code,        \* MVHashMap.code: VersionedCode<K, X>
    panicked,    \* a contract violation aborted the process
    fetched,     \* what the last fetch_data / fetch_code call returned
    ops          \* number of calls that changed the store so far

mvars == <<data, code, panicked, fetched, ops>>

\* The per-key locks of the two halves and the call each worker is in.
VARIABLES
    stripe_lock,   \* per stripe: the worker that holds its lock, if any
    in_flight      \* per worker: the call it has begun and not finished

svars == <<stripe_lock, in_flight>>

(***************************************************************************)
(* txns_per_shard = (total_txns as f64 / num_shards as f64).ceil() as usize*)
(* With num_shards = 0 the quotient is +inf and the cast saturates to      *)
(* usize::MAX; every index divided by it is 0, which SaturatedUsize        *)
(* reproduces for every index of the model.                                *)
(***************************************************************************)
SaturatedUsize == MaxTxns + 1

\* A chunk size rounded down, and 1 for fewer transactions than shards.
TxnsPerShardFloor(total_txns, shards) ==
    IF shards = 0 THEN SaturatedUsize
    ELSE IF total_txns < shards THEN 1
    ELSE total_txns \div shards

TxnsPerShard(total_txns, shards) ==
    IF shards = 0 THEN SaturatedUsize
    ELSE (total_txns + shards - 1) \div shards

\* block_partitioner::get_shard_for_index
get_shard_for_index(tps, idx) == idx \div tps

(***************************************************************************)
(* DependencyGraph.  Two transactions u, v with u before v are joined iff  *)
(* a write hint of u is a read or write hint of v.  The set kept for a     *)
(* node, which get_dependent_nodes returns, holds the earlier transactions *)
(* the node is joined with: it is the orientation under which              *)
(* test_single_sender_txns and test_conflicting_sender_ordering (lines     *)
(* 218-249, 277-337) pass; with the later transactions in the set, the     *)
(* reverse loop discards indices 0..8 of the single-sender block, which    *)
(* the test expects to start with three accepted transactions.  Nodes with *)
(* an empty set have no entry (get_dependent_nodes returns None).          *)
(***************************************************************************)
Conflicts(u, v) == u.write_hints \cap (v.read_hints \cup v.write_hints) # {}

\* The later transactions a node is joined with.
DependentsOfLater(txns, i) ==
    {j \in 0..(Len(txns) - 1) : i < j /\ Conflicts(TxnAt(txns, i), TxnAt(txns, j))}

DependentsOf(txns, i) ==
    {j \in 0..(Len(txns) - 1) : j < i /\ Conflicts(TxnAt(txns, j), TxnAt(txns, i))}

create_dependency_graph(txns) ==
    [i \in {n \in 0..(Len(txns) - 1) : DependentsOf(txns, n) # {}} |->
        DependentsOf(txns, i)]

get_dependent_nodes(g, i) == MapGet(g, i)

\* The orders in which a HashSet may be iterated.
IterationOrders(S) ==
    {f \in [1..Cardinality(S) -> S] : \A a, b \in 1..Cardinality(S) : a # b => f[a] # f[b]}

RECURSIVE SortedSeq(_)
SortedSeq(S) ==
    IF S = {} THEN <<>>
    ELSE LET m == CHOOSE x \in S : \A y \in S : x <= y
         IN <<m>> \o SortedSeq(S \ {m})

(***************************************************************************)
(* Reverse pass, lines 44-71: the loop over the dependents of one node.    *)
(* order is the sequence in which the dependents are visited.              *)
(***************************************************************************)
RECURSIVE ScanDependentsMut(_, _, _, _)
ScanDependentsMut(order, statuses, tps, current_shard_index) ==
    IF order = <<>> THEN FALSE
    ELSE LET node == Head(order) IN
         IF MapGet(statuses, node) = Some(Discarded)
         THEN ScanDependentsMut(Tail(order), statuses, tps, current_shard_index)
         ELSE get_shard_for_index(tps, node) # current_shard_index

\* The loop that passes over every node without an Accepted status.
RECURSIVE ScanDependentsAcceptedOnly(_, _, _, _)
ScanDependentsAcceptedOnly(order, statuses, tps, current_shard_index) ==
    IF order = <<>> THEN FALSE
    ELSE LET node == Head(order) IN
         IF MapGet(statuses, node) # Some(Accepted)
         THEN ScanDependentsAcceptedOnly(Tail(order), statuses, tps, current_shard_index)
         ELSE IF get_shard_for_index(tps, node) # current_shard_index
              THEN TRUE
              ELSE ScanDependentsAcceptedOnly(Tail(order), statuses, tps, current_shard_index)

\* The loop with the test of the shards inverted: a node of the same shard
\* discards.
ScanDependentsSameShard(order, statuses, tps, current_shard_index) ==
    \E p \in 1..Len(order) :
        /\ MapGet(statuses, order[p]) # Some(Discarded)
        /\ get_shard_for_index(tps, order[p]) = current_shard_index

\* The loop without the test of the status: any node of another shard discards.
ScanDependentsNoSkip(order, statuses, tps, current_shard_index) ==
    \E p \in 1..Len(order) : get_shard_for_index(tps, order[p]) # current_shard_index

RECURSIVE ScanDependents(_, _, _, _)
ScanDependents(order, statuses, tps, current_shard_index) ==
    IF order = <<>> THEN FALSE
    ELSE LET node == Head(order) IN
         IF MapGet(statuses, node) = Some(Discarded)
         THEN ScanDependents(Tail(order), statuses, tps, current_shard_index)
         ELSE IF get_shard_for_index(tps, node) # current_shard_index
              THEN TRUE
              ELSE ScanDependents(Tail(order), statuses, tps, current_shard_index)

\* is_discarded of one iteration of the reverse loop, lines 45-65.
IsDiscardedUnlessDependents(g, statuses, tps, idx, order) ==
    IF get_dependent_nodes(g, idx) = None THEN idx > 0
    ELSE ScanDependents(order, statuses, tps, get_shard_for_index(tps, idx))

\* An iteration that never discards.
IsDiscardedNever(g, statuses, tps, idx, order) == FALSE

IsDiscarded(g, statuses, tps, idx, order) ==
    IF get_dependent_nodes(g, idx) = None THEN FALSE
    ELSE ScanDependents(order, statuses, tps, get_shard_for_index(tps, idx))

\* lines 66-70
ReverseStatusMut(is_discarded) == Accepted

ReverseStatus(is_discarded) == IF is_discarded THEN Discarded ELSE Accepted

(***************************************************************************)
(* Sender pass, lines 75-90: one iteration, as the new                     *)
(* <<txn_statuses, discarded_senders>>.                                    *)
(***************************************************************************)
SenderIterationMut(txn, idx, statuses, senders) ==
    IF statuses[idx] = Discarded /\ IsSome(txn.sender)
    THEN <<statuses, senders \cup {Unwrap(txn.sender)}>>
    ELSE <<statuses, senders>>

\* An iteration that accepts again a discarded transaction without a sender.
SenderIterationForgiving(txn, idx, statuses, senders) ==
    IF IsSome(txn.sender) /\ Unwrap(txn.sender) \in senders
    THEN <<MapInsert(statuses, idx, Discarded), senders>>
    ELSE IF statuses[idx] = Discarded /\ IsSome(txn.sender)
         THEN <<statuses, senders \cup {Unwrap(txn.sender)}>>
         ELSE <<MapInsert(statuses, idx, Accepted), senders>>

\* An iteration that discards every transaction once any sender is discarded.
SenderIterationQuarantineAll(txn, idx, statuses, senders) ==
    IF senders # {}
    THEN <<MapInsert(statuses, idx, Discarded), senders>>
    ELSE IF statuses[idx] = Discarded /\ IsSome(txn.sender)
         THEN <<statuses, senders \cup {Unwrap(txn.sender)}>>
         ELSE <<statuses, senders>>

SenderIteration(txn, idx, statuses, senders) ==
    IF IsSome(txn.sender) /\ Unwrap(txn.sender) \in senders
    THEN <<MapInsert(statuses, idx, Discarded), senders>>
    ELSE IF statuses[idx] = Discarded /\ IsSome(txn.sender)
         THEN <<statuses, senders \cup {Unwrap(txn.sender)}>>
         ELSE <<statuses, senders>>

(***************************************************************************)
(* Emit loop, lines 97-115: one iteration, as the new                      *)
(* <<accpeted_transactions, rejected_transactions>>.                       *)
(***************************************************************************)
EmitIterationMut(txn, idx, statuses, tps, acc, rej) ==
    IF statuses[idx] = Accepted
    THEN <<MapPushBack(acc, get_shard_for_index(tps, idx), txn), rej>>
    ELSE <<acc, MapPushBack(rej, 0, txn)>>

EmitIteration(txn, idx, statuses, tps, acc, rej) ==
    IF statuses[idx] = Accepted
    THEN <<MapPushBack(acc, get_shard_for_index(tps, idx), txn), rej>>
    ELSE <<acc, MapPushBack(rej, get_shard_for_index(tps, idx), txn)>>

\* The maps returned for an empty block, line 33.
EmptyResultMut == <<[s \in 0..(num_shards - 1) |-> <<>>], EmptyMap>>

EmptyResult == <<EmptyMap, EmptyMap>>

(***************************************************************************)
(* The partitioner as a state machine.                                     *)
(***************************************************************************)
InitPartition ==
    /\ \E n \in 0..MaxTxns : \E b \in [1..n -> TxnBodies] : transactions = MakeBlock(b)
    /\ num_shards \in 0..MaxShards
    /\ pc = "start"
    /\ index = 0
    /\ txns_per_shard = 0
    /\ graph = EmptyMap
    /\ txn_statuses = EmptyMap
    /\ discarded_senders = {}
    /\ accpeted_transactions = EmptyMap
    /\ rejected_transactions = EmptyMap

\* lines 31-34: the empty block.
ReturnEmpty ==
    /\ UNCHANGED <<mvars, svars>>
    /\ pc = "start"
    /\ Len(transactions) = 0
    /\ accpeted_transactions' = EmptyResult[1]
    /\ rejected_transactions' = EmptyResult[2]
    /\ pc' = "done"
    /\ UNCHANGED <<transactions, num_shards, index, txns_per_shard, graph,
                   txn_statuses, discarded_senders>>

\* lines 35-40
Setup ==
    /\ UNCHANGED <<mvars, svars>>
    /\ pc = "start"
    /\ Len(transactions) # 0
    /\ txns_per_shard' = TxnsPerShard(Len(transactions), num_shards)
    /\ graph' = create_dependency_graph(transactions)
    /\ txn_statuses' = EmptyMap
    /\ index' = Len(transactions) - 1
    /\ pc' = "reverse"
    /\ UNCHANGED <<transactions, num_shards, discarded_senders,
                   accpeted_transactions, rejected_transactions>>

\* lines 44-71: one iteration of the reverse loop.
ReverseStep ==
    /\ UNCHANGED <<mvars, svars>>
    /\ pc = "reverse"
    /\ \E order \in IterationOrders(IF index \in DOMAIN graph THEN graph[index] ELSE {}) :
          txn_statuses' =
             MapInsert(txn_statuses, index,
                 ReverseStatus(IsDiscarded(graph, txn_statuses, txns_per_shard, index, order)))
    /\ IF index = 0
       THEN pc' = "sender" /\ index' = 0
       ELSE pc' = pc /\ index' = index - 1
    /\ UNCHANGED <<transactions, num_shards, txns_per_shard, graph,
                   discarded_senders, accpeted_transactions, rejected_transactions>>

\* lines 74-90: one iteration of the sender loop.
SenderStep ==
    /\ UNCHANGED <<mvars, svars>>
    /\ pc = "sender"
    /\ LET r == SenderIteration(TxnAt(transactions, index), index,
                                txn_statuses, discarded_senders)
       IN /\ txn_statuses' = r[1]
          /\ discarded_senders' = r[2]
    /\ IF index = Len(transactions) - 1
       THEN pc' = "emit" /\ index' = 0
       ELSE pc' = pc /\ index' = index + 1
    /\ UNCHANGED <<transactions, num_shards, txns_per_shard, graph,
                   accpeted_transactions, rejected_transactions>>

\* lines 93-116: one iteration of the emit loop; the last one returns.
EmitStep ==
    /\ UNCHANGED <<mvars, svars>>
    /\ pc = "emit"
    /\ LET r == EmitIteration(TxnAt(transactions, index), index, txn_statuses,
                              txns_per_shard, accpeted_transactions,
                              rejected_transactions)
       IN /\ accpeted_transactions' = r[1]
          /\ rejected_transactions' = r[2]
    /\ IF index = Len(transactions) - 1
       THEN pc' = "done" /\ index' = index
       ELSE pc' = pc /\ index' = index + 1
    /\ UNCHANGED <<transactions, num_shards, txns_per_shard, graph,
                   txn_statuses, discarded_senders>>

NextPartition ==
    \/ ReturnEmpty
    \/ Setup
    \/ ReverseStep
    \/ SenderStep
    \/ EmitStep

(***************************************************************************)
(* MVHashMap (mvhashmap/src/lib.rs).                                       *)
(***************************************************************************)
\* Bounds of the store model.
NumDataKeys == 1
NumModuleKeys == 1
MaxTxnIdx == 2
MaxIncarnation == 1
MaxValue == 1
MaxDelta == 1
MaxOps == 3
NumExecutables == 2

\* A key is an access path; module_path() is Some for a module path.
DataKeys == {<<"data", n>> : n \in 1..NumDataKeys}
ModuleKeys == {<<"module", n>> : n \in 1..NumModuleKeys}
Keys == DataKeys \cup ModuleKeys
module_path(key) == IF key[1] = "module" THEN Some(key[2]) ELSE None

TxnIdxs == 0..MaxTxnIdx
Incarnations == 0..MaxIncarnation
Versions == TxnIdxs \X Incarnations

\* Op<AptosWrite>: a value or a deletion.
Values == 0..MaxValue
Value(v) == [kind |-> "Value", value |-> v]
Deletion == [kind |-> "Deletion"]
WriteOps == {Value(v) : v \in Values} \cup {Deletion}

\* DeltaOp: a signed update and the ceiling of the value it applies to.
DeltaLimit == MaxValue
DeltaOp(u) == [update |-> u, limit |-> DeltaLimit]
DeltaOps == {DeltaOp(u) : u \in (-MaxDelta..MaxDelta) \ {0}}
Delta(d) == [kind |-> "Delta", delta |-> d]

\* Executables and their descriptors.
StorageVersion == [kind |-> "StorageVersion"]
PublishedModuleHash(digest) == [kind |-> "PublishedModuleHash", digest |-> digest]
\* The digest of module bytes: distinct bytes have distinct digests.
HashOf(bytes) == <<"sha3", bytes>>
Descriptors == {StorageVersion} \cup {PublishedModuleHash(HashOf(v)) : v \in Values}
Executables == {<<"exec", n>> : n \in 1..NumExecutables}

Done == "Done"
Estimate == "Estimate"


\* BTreeMap::remove
MapRemove(m, k) == [x \in (DOMAIN m) \ {k} |-> m[x]]

(***************************************************************************)
(* Results of the reads.                                                   *)
(***************************************************************************)
Versioned(version, v) == [tag |-> "Versioned", version |-> version, value |-> v]
Unresolved(sum) == [tag |-> "Unresolved", delta |-> sum]
NotFound == [tag |-> "NotFound"]
Dependency(i) == [tag |-> "Dependency", txn_idx |-> i]
DeltaApplicationFailure == [tag |-> "DeltaApplicationFailure"]
Module(bytes, descriptor) == [tag |-> "Module", bytes |-> bytes, descriptor |-> descriptor]
Executable(exec, descriptor) == [tag |-> "Executable", exec |-> exec, descriptor |-> descriptor]

(***************************************************************************)
(* VersionedData: per key an ordered map TxnIndex -> EntryCell.  A key     *)
(* without entries and a key that was never written behave alike, so the   *)
(* half is a function on all keys.                                         *)
(***************************************************************************)
VersionedData_new == [k \in Keys |-> EmptyMap]

\* What a call on one half returns: the new half and whether it panicked.
HalfOk(h) == [half |-> h, panic |-> FALSE]
HalfPanic(h) == [half |-> h, panic |-> TRUE]

data_write(d, key, version, op) ==
    HalfOk([d EXCEPT ![key] =
        MapInsert(@, version[1], [incarnation |-> version[2], content |-> op, flag |-> Done])])

data_add_delta(d, key, txn_idx, delta) ==
    HalfOk([d EXCEPT ![key] = MapInsert(@, txn_idx, [content |-> Delta(delta), flag |-> Done])])

data_mark_estimate(d, key, txn_idx) ==
    IF txn_idx \in DOMAIN d[key]
    THEN HalfOk([d EXCEPT ![key][txn_idx].flag = Estimate])
    ELSE HalfPanic(d)

data_delete(d, key, txn_idx) ==
    IF txn_idx \in DOMAIN d[key]
    THEN HalfOk([d EXCEPT ![key] = MapRemove(@, txn_idx)])
    ELSE HalfPanic(d)

\* An application that saturates at 0 and still fails above the limit.
ApplyDeltaFloorAtZero(v, delta) ==
    LET r == v + delta.update
    IN IF r > delta.limit THEN None ELSE IF r < 0 THEN Some(0) ELSE Some(r)

\* An application that saturates at 0 and at the limit.
ApplyDeltaSaturating(v, delta) ==
    LET r == v + delta.update
    IN IF r < 0 THEN Some(0) ELSE IF r > delta.limit THEN Some(delta.limit) ELSE Some(r)

\* Applying one delta to a value: None when the result leaves [0, limit].
ApplyDelta(v, delta) ==
    LET r == v + delta.update
    IN IF r < 0 \/ r > delta.limit THEN None ELSE Some(r)

\* Applying the accumulated deltas, in ascending order of their txn_idx.
RECURSIVE ApplyDeltas(_, _)
ApplyDeltas(v, deltas) ==
    IF deltas = <<>> THEN Some(v)
    ELSE LET r == ApplyDelta(v, Head(deltas))
         IN IF r = None THEN None ELSE ApplyDeltas(Unwrap(r), Tail(deltas))

\* A composition that keeps the delta of the lowest txn_idx only.
ComposeDeltasLowestOnly(deltas) == Some(Head(deltas))

\* Composing the accumulated deltas: None when the sum leaves [-limit, limit].
RECURSIVE ComposeDeltas(_)
ComposeDeltas(deltas) ==
    IF Len(deltas) = 1 THEN Some(Head(deltas))
    ELSE LET rest == ComposeDeltas(Tail(deltas))
         IN IF rest = None THEN None
            ELSE LET u == Head(deltas).update + Unwrap(rest).update
                 IN IF u > Head(deltas).limit \/ u < -Head(deltas).limit
                    THEN None
                    ELSE Some([update |-> u, limit |-> Head(deltas).limit])

\* A scan for which a Deletion below accumulated deltas is no failure.
RECURSIVE ScanDataDeletionAsAbsent(_, _, _)
ScanDataDeletionAsAbsent(tree, i, acc) ==
    IF i < 0
    THEN IF acc = <<>> THEN NotFound
         ELSE IF ComposeDeltas(acc) = None THEN DeltaApplicationFailure
              ELSE Unresolved(Unwrap(ComposeDeltas(acc)))
    ELSE IF i \notin DOMAIN tree THEN ScanDataDeletionAsAbsent(tree, i - 1, acc)
    ELSE IF tree[i].flag = Estimate THEN Dependency(i)
    ELSE IF tree[i].content.kind = "Delta"
         THEN ScanDataDeletionAsAbsent(tree, i - 1, <<tree[i].content.delta>> \o acc)
    ELSE IF tree[i].content.kind = "Deletion"
         THEN NotFound
    ELSE LET r == ApplyDeltas(tree[i].content.value, acc)
         IN IF r = None THEN DeltaApplicationFailure
            ELSE Versioned(<<i, tree[i].incarnation>>, Unwrap(r))

\* The descending scan of fetch_data from index i; acc holds the deltas met so
\* far, lowest txn_idx first.
RECURSIVE ScanData(_, _, _)
ScanData(tree, i, acc) ==
    IF i < 0
    THEN IF acc = <<>> THEN NotFound
         ELSE IF ComposeDeltas(acc) = None THEN DeltaApplicationFailure
              ELSE Unresolved(Unwrap(ComposeDeltas(acc)))
    ELSE IF i \notin DOMAIN tree THEN ScanData(tree, i - 1, acc)
    ELSE IF tree[i].flag = Estimate THEN Dependency(i)
    ELSE IF tree[i].content.kind = "Delta"
         THEN ScanData(tree, i - 1, <<tree[i].content.delta>> \o acc)
    ELSE IF tree[i].content.kind = "Deletion"
         THEN IF acc = <<>> THEN NotFound ELSE DeltaApplicationFailure
    ELSE LET r == ApplyDeltas(tree[i].content.value, acc)
         IN IF r = None THEN DeltaApplicationFailure
            ELSE Versioned(<<i, tree[i].incarnation>>, Unwrap(r))

data_fetch_data(d, key, txn_idx) == ScanData(d[key], txn_idx - 1, <<>>)

(***************************************************************************)
(* VersionedCode: per key the module writes and the executables stored     *)
(* under their descriptors.                                                *)
(***************************************************************************)
VersionedCode_new == [entries |-> [k \in Keys |-> EmptyMap],
                      executables |-> [k \in Keys |-> EmptyMap]]

code_write(c, key, txn_idx, op) ==
    HalfOk([c EXCEPT !.entries[key] = MapInsert(@, txn_idx, [content |-> op, flag |-> Done])])

code_mark_estimate(c, key, txn_idx) ==
    IF txn_idx \in DOMAIN c.entries[key]
    THEN HalfOk([c EXCEPT !.entries[key][txn_idx].flag = Estimate])
    ELSE HalfPanic(c)

code_delete(c, key, txn_idx) ==
    IF txn_idx \in DOMAIN c.entries[key]
    THEN HalfOk([c EXCEPT !.entries[key] = MapRemove(@, txn_idx)])
    ELSE HalfPanic(c)

code_store_executable(c, key, descriptor, executable) ==
    [c EXCEPT !.executables[key] = MapInsert(@, descriptor, executable)]

RECURSIVE ScanCode(_, _, _)
ScanCode(c, key, i) ==
    IF i < 0 THEN NotFound
    ELSE IF i \notin DOMAIN c.entries[key] THEN ScanCode(c, key, i - 1)
    ELSE IF c.entries[key][i].flag = Estimate THEN Dependency(i)
    ELSE IF c.entries[key][i].content.kind = "Deletion" THEN NotFound
    ELSE LET bytes == c.entries[key][i].content.value
             descriptor == PublishedModuleHash(HashOf(bytes))
         IN IF descriptor \in DOMAIN c.executables[key]
            THEN Executable(c.executables[key][descriptor], descriptor)
            ELSE Module(bytes, descriptor)

code_fetch_code(c, key, txn_idx) == ScanCode(c, key, txn_idx - 1)

(***************************************************************************)
(* The facade: every method of MVHashMap on the current <<data, code>>.    *)
(* A mutating method yields the new store and whether it panicked.         *)
(***************************************************************************)
Store(d, c, p) == [data |-> d, code |-> c, panic |-> p]
OnData(r) == Store(r.half, code, r.panic)
OnCode(r) == Store(data, r.half, r.panic)

\* A constructor that drops the code cache it is given.
newWithoutCache(code_cache) == Store(VersionedData_new, VersionedCode_new, FALSE)

\* MVHashMap::new(code_cache)
new(code_cache) ==
    Store(VersionedData_new,
          IF code_cache = None THEN VersionedCode_new ELSE Unwrap(code_cache),
          FALSE)

\* MVHashMap::take
take == <<data, code>>

mark_estimateMut(key, txn_idx) ==
    IF module_path(key) # None
    THEN OnData(data_mark_estimate(data, key, txn_idx))
    ELSE OnCode(code_mark_estimate(code, key, txn_idx))

mark_estimate(key, txn_idx) ==
    IF module_path(key) # None
    THEN OnCode(code_mark_estimate(code, key, txn_idx))
    ELSE OnData(data_mark_estimate(data, key, txn_idx))

\* delete with the arms of the match exchanged.
deleteOtherHalf(key, txn_idx) ==
    IF module_path(key) # None
    THEN OnData(data_delete(data, key, txn_idx))
    ELSE OnCode(code_delete(code, key, txn_idx))

\* A delete that never inspects module_path().
deleteDataOnly(key, txn_idx) == OnData(data_delete(data, key, txn_idx))

delete(key, txn_idx) ==
    IF module_path(key) # None
    THEN OnCode(code_delete(code, key, txn_idx))
    ELSE OnData(data_delete(data, key, txn_idx))

\* A write that inserts an entry and never replaces one.
writeInsertOnly(key, version, value) ==
    IF module_path(key) # None
    THEN IF version[1] \in DOMAIN code.entries[key]
         THEN Store(data, code, FALSE)
         ELSE OnCode(code_write(code, key, version[1], value))
    ELSE IF version[1] \in DOMAIN data[key]
         THEN Store(data, code, FALSE)
         ELSE OnData(data_write(data, key, version, value))

writeStaleMut(key, version, value) ==
    IF module_path(key) # None
    THEN OnCode(code_write(code, key, version[1], value))
    ELSE OnData(data_write(data, key, <<version[1], 0>>, value))

writeMut(key, version, value) ==
    IF module_path(key) # None
    THEN OnData(data_write(data, key, version, value))
    ELSE OnCode(code_write(code, key, version[1], value))

write(key, version, value) ==
    IF module_path(key) # None
    THEN OnCode(code_write(code, key, version[1], value))
    ELSE OnData(data_write(data, key, version, value))

\* add_delta in a build with debug assertions: the assertion panics on a
\* module path.
add_delta_debug(key, txn_idx, delta) ==
    IF module_path(key) # None
    THEN Store(data, code, TRUE)
    ELSE OnData(data_add_delta(data, key, txn_idx, delta))

\* add_delta in a build without debug assertions.
add_delta_release(key, txn_idx, delta) ==
    OnData(data_add_delta(data, key, txn_idx, delta))

fetch_dataMut(key, txn_idx) == data_fetch_data(data, key, txn_idx + 1)

fetch_data(key, txn_idx) == data_fetch_data(data, key, txn_idx)

\* A store_executable that installs nothing.
store_executableDropped(key, descriptor, executable) == Store(data, code, FALSE)

store_executable(key, descriptor, executable) ==
    Store(data, code_store_executable(code, key, descriptor, executable), FALSE)

fetch_code(key, txn_idx) == code_fetch_code(code, key, txn_idx)

(***************************************************************************)
(* The store as a state machine: each action is one call of one worker.    *)
(* DashMap gives a call exclusive access to its key, and a call touches    *)
(* one key, so calls are atomic.                                           *)
(***************************************************************************)
NoFetch == [op |-> "none"]

\* The workers that call the store, and the locks: one per half and key.
NumWorkers == 2
Workers == 1..NumWorkers
Stripes == {"data", "code"} \X Keys
Idle == [phase |-> "idle"]

InitMVS ==
    /\ data = new(None).data
    /\ code = new(None).code
    /\ panicked = FALSE
    /\ fetched = NoFetch
    /\ ops = 0
    /\ stripe_lock = [s \in Stripes |-> None]
    /\ in_flight = [w \in Workers |-> Idle]

\* A call that may change the store runs while the process is alive; the model
\* follows MaxOps such calls.
CanMutate == ~panicked /\ ops < MaxOps

WriteCall(key, version, value) ==
    /\ CanMutate
    /\ data' = write(key, version, value).data
    /\ code' = write(key, version, value).code
    /\ panicked' = write(key, version, value).panic
    /\ ops' = ops + 1
    /\ UNCHANGED <<fetched, pvars, svars>>

\* The debug assertion panics on a module path in a build with debug
\* assertions and is absent from a build without them.
AddDeltaCall(key, txn_idx, delta) ==
    /\ CanMutate
    /\ \E r \in {add_delta_debug(key, txn_idx, delta), add_delta_release(key, txn_idx, delta)} :
          /\ data' = r.data
          /\ code' = r.code
          /\ panicked' = r.panic
    /\ ops' = ops + 1
    /\ UNCHANGED <<fetched, pvars, svars>>

MarkEstimateCall(key, txn_idx) ==
    /\ CanMutate
    /\ data' = mark_estimate(key, txn_idx).data
    /\ code' = mark_estimate(key, txn_idx).code
    /\ panicked' = mark_estimate(key, txn_idx).panic
    /\ ops' = ops + 1
    /\ UNCHANGED <<fetched, pvars, svars>>

DeleteCall(key, txn_idx) ==
    /\ CanMutate
    /\ data' = delete(key, txn_idx).data
    /\ code' = delete(key, txn_idx).code
    /\ panicked' = delete(key, txn_idx).panic
    /\ ops' = ops + 1
    /\ UNCHANGED <<fetched, pvars, svars>>

StoreExecutableCall(key, descriptor, executable) ==
    /\ CanMutate
    /\ data' = store_executable(key, descriptor, executable).data
    /\ code' = store_executable(key, descriptor, executable).code
    /\ panicked' = store_executable(key, descriptor, executable).panic
    /\ ops' = ops + 1
    /\ UNCHANGED <<fetched, pvars, svars>>

\* take() at the end of a block, then new(Some(code)) for the next block.
ReuseCodeCache ==
    /\ CanMutate
    /\ data' = new(Some(take[2])).data
    /\ code' = new(Some(take[2])).code
    /\ panicked' = new(Some(take[2])).panic
    /\ ops' = ops + 1
    /\ UNCHANGED <<fetched, pvars, svars>>

\* take() at the end of a block, then new(None) for the next block.
DropCodeCache ==
    /\ CanMutate
    /\ data' = new(None).data
    /\ code' = new(None).code
    /\ panicked' = new(None).panic
    /\ ops' = ops + 1
    /\ UNCHANGED <<fetched, pvars, svars>>

\* A read that clears the entries of the key when it meets an Estimate.
FetchDataCallClearing(key, txn_idx) ==
    /\ ~panicked
    /\ fetched' = [op |-> "fetch_data", key |-> key, txn_idx |-> txn_idx,
                   result |-> fetch_data(key, txn_idx),
                   retry |-> /\ fetched.op = "fetch_data"
                             /\ fetched.key = key
                             /\ fetched.txn_idx = txn_idx
                             /\ fetched.result.tag = "Dependency"]
    /\ data' = IF fetch_data(key, txn_idx).tag = "Dependency"
               THEN [data EXCEPT ![key] = EmptyMap]
               ELSE data
    /\ UNCHANGED <<code, panicked, ops>>
    /\ UNCHANGED <<pvars, svars>>

\* A read: the caller gets the result, the store stays as it is.  retry tells
\* that the caller repeats the read that last returned a Dependency.
FetchDataCall(key, txn_idx) ==
    /\ ~panicked
    /\ fetched' = [op |-> "fetch_data", key |-> key, txn_idx |-> txn_idx,
                   result |-> fetch_data(key, txn_idx),
                   retry |-> /\ fetched.op = "fetch_data"
                             /\ fetched.key = key
                             /\ fetched.txn_idx = txn_idx
                             /\ fetched.result.tag = "Dependency"]
    /\ UNCHANGED <<data, code, panicked, ops>>
    /\ UNCHANGED <<pvars, svars>>

FetchCodeCall(key, txn_idx) ==
    /\ ~panicked
    /\ fetched' = [op |-> "fetch_code", key |-> key, txn_idx |-> txn_idx,
                   result |-> fetch_code(key, txn_idx),
                   retry |-> /\ fetched.op = "fetch_code"
                             /\ fetched.key = key
                             /\ fetched.txn_idx = txn_idx
                             /\ fetched.result.tag = "Dependency"]
    /\ UNCHANGED <<data, code, panicked, ops>>
    /\ UNCHANGED <<pvars, svars>>

FetchIdxs == 0..(MaxTxnIdx + 1)

NextMVS ==
    \/ \E key \in Keys, version \in Versions, value \in WriteOps :
          WriteCall(key, version, value)
    \/ \E key \in Keys, txn_idx \in TxnIdxs, delta \in DeltaOps :
          AddDeltaCall(key, txn_idx, delta)
    \/ \E key \in Keys, txn_idx \in TxnIdxs : MarkEstimateCall(key, txn_idx)
    \/ \E key \in Keys, txn_idx \in TxnIdxs : DeleteCall(key, txn_idx)
    \/ \E key \in Keys, descriptor \in Descriptors, executable \in Executables :
          StoreExecutableCall(key, descriptor, executable)
    \/ ReuseCodeCache
    \/ DropCodeCache
    \/ \E key \in Keys, txn_idx \in FetchIdxs : FetchDataCall(key, txn_idx)
    \/ \E key \in Keys, txn_idx \in FetchIdxs : FetchCodeCall(key, txn_idx)

(***************************************************************************)
(* The two specifications.                                                 *)
(***************************************************************************)
vars == <<pvars, mvars, svars>>

\* The partitioner variables while the store runs.
IdlePartition ==
    /\ transactions = <<>>
    /\ num_shards = 0
    /\ pc = "idle"
    /\ index = 0
    /\ txns_per_shard = 0
    /\ graph = EmptyMap
    /\ txn_statuses = EmptyMap
    /\ discarded_senders = {}
    /\ accpeted_transactions = EmptyMap
    /\ rejected_transactions = EmptyMap

Init == InitPartition /\ InitMVS

Next == NextPartition

Spec == Init /\ [][Next]_vars

InitStore == IdlePartition /\ InitMVS

SpecMVS == InitStore /\ [][NextMVS]_vars

\* The store as the data-side callers use it: every call that changes the
\* store, and fetch_data as the only read.
NextData ==
    \/ \E key \in Keys, version \in Versions, value \in WriteOps :
          WriteCall(key, version, value)
    \/ \E key \in Keys, txn_idx \in TxnIdxs, delta \in DeltaOps :
          AddDeltaCall(key, txn_idx, delta)
    \/ \E key \in Keys, txn_idx \in TxnIdxs : MarkEstimateCall(key, txn_idx)
    \/ \E key \in Keys, txn_idx \in TxnIdxs : DeleteCall(key, txn_idx)
    \/ \E key \in Keys, descriptor \in Descriptors, executable \in Executables :
          StoreExecutableCall(key, descriptor, executable)
    \/ ReuseCodeCache
    \/ DropCodeCache
    \/ \E key \in Keys, txn_idx \in FetchIdxs : FetchDataCall(key, txn_idx)

SpecData == InitStore /\ [][NextData]_vars

(***************************************************************************)
(* The blocks of test_conflicting_sender_ordering, lines 277-337: eight    *)
(* transactions for three shards; those at indices 1, 2, 4, 5, 7 have one  *)
(* sender and conflict with each other, those at indices 0, 3, 6 have      *)
(* another sender or none and conflict with nothing.                       *)
(***************************************************************************)
OrderingTxns == 8
OrderingShards == 3
ConflictingIndices == {1, 2, 4, 5, 7}
NonConflictingIndices == (0..(OrderingTxns - 1)) \ ConflictingIndices

InitOrderingBlock ==
    /\ \E s \in Senders :
         \E g \in [ConflictingIndices -> {b \in TxnBodies : b.sender = Some(s)}] :
            /\ \A i, j \in ConflictingIndices : i < j => Conflicts(g[i], g[j])
            /\ \E f \in [NonConflictingIndices -> {b \in TxnBodies : b.sender # Some(s)}] :
                 LET bodies == [p \in 1..OrderingTxns |->
                                   IF (p - 1) \in ConflictingIndices THEN g[p - 1] ELSE f[p - 1]]
                 IN /\ \A i \in NonConflictingIndices, j \in 0..(OrderingTxns - 1) :
                          /\ i < j => ~Conflicts(bodies[i + 1], bodies[j + 1])
                          /\ j < i => ~Conflicts(bodies[j + 1], bodies[i + 1])
                    /\ transactions = MakeBlock(bodies)
    /\ num_shards = OrderingShards
    /\ pc = "start"
    /\ index = 0
    /\ txns_per_shard = 0
    /\ graph = EmptyMap
    /\ txn_statuses = EmptyMap
    /\ discarded_senders = {}
    /\ accpeted_transactions = EmptyMap
    /\ rejected_transactions = EmptyMap

\* partition on a block that is not empty.
NextOrdering ==
    \/ Setup
    \/ ReverseStep
    \/ SenderStep
    \/ EmitStep

InitOrdering == InitOrderingBlock /\ InitMVS

SpecOrdering == InitOrdering /\ [][NextOrdering]_vars

(***************************************************************************)
(* Reading the result of partition.                                        *)
(***************************************************************************)
NumTxns == Len(transactions)
Indices == 0..(NumTxns - 1)

\* orig_txns.iter().position(|x| x == txn)
IndexOfTxn(txn) == CHOOSE i \in Indices : TxnAt(transactions, i) = txn

\* The places <<shard key, position in the list>> of a shard map.
Places(m) == {sp \in (DOMAIN m) \X (1..MaxTxns) : sp[2] <= Len(m[sp[1]])}

\* The places of a shard map that hold the transaction of input index i.
PlacesOf(m, i) == {sp \in Places(m) : m[sp[1]][sp[2]] = TxnAt(transactions, i)}

IsAccepted(i) == PlacesOf(accpeted_transactions, i) # {}
IsRejected(i) == PlacesOf(rejected_transactions, i) # {}

\* The shard keys under which input index i is stored in m.
ShardKeysOf(m, i) == {sp[1] : sp \in PlacesOf(m, i)}

Hints(txn) == txn.read_hints \cup txn.write_hints

\* ceil(n / s) for s >= 1, by its defining inequalities.
CeilDiv(n, s) == CHOOSE c \in 0..n : c * s >= n /\ (c = 0 \/ (c - 1) * s < n)

C2_PositionalShards ==
    (pc = "done" /\ num_shards >= 1) =>
        \A i \in Indices :
            \A s \in ShardKeysOf(accpeted_transactions, i) \cup
                     ShardKeysOf(rejected_transactions, i) :
                s = i \div CeilDiv(NumTxns, num_shards)

\* A finished run with a rejected transaction outside shard 0 and an accepted one.
C2_Witness ==
    /\ pc = "done"
    /\ num_shards >= 2
    /\ \E i \in Indices : IsRejected(i) /\ i \div CeilDiv(NumTxns, num_shards) > 0
    /\ \E i \in Indices : IsAccepted(i)

(***************************************************************************)
(* C3: in the final output, if the transaction at index i is rejected and  *)
(* has sender s, every transaction at an index j > i with sender s is      *)
(* rejected too.                                                           *)
(***************************************************************************)
C3_SenderQuarantine ==
    pc = "done" =>
        \A i, j \in Indices :
            (/\ i < j
             /\ IsRejected(i)
             /\ IsSome(TxnAt(transactions, i).sender)
             /\ TxnAt(transactions, j).sender = TxnAt(transactions, i).sender)
            => (IsRejected(j) /\ ~IsAccepted(j))

\* A finished run where a later transaction without any dependent (so accepted
\* by the reverse pass) is rejected because of an earlier one of its sender.
C3_Witness ==
    /\ pc = "done"
    /\ \E i, j \in Indices :
          /\ i < j
          /\ IsRejected(i) /\ IsRejected(j)
          /\ IsSome(TxnAt(transactions, i).sender)
          /\ TxnAt(transactions, j).sender = TxnAt(transactions, i).sender
          /\ j \notin DOMAIN graph

(***************************************************************************)
(* C4: for a non-empty input every input transaction appears exactly once  *)
(* across the two output maps, so exactly N transactions are emitted.      *)
(***************************************************************************)
C4_ExactlyOnce ==
    (pc = "done" /\ NumTxns >= 1) =>
        /\ \A i \in Indices :
              Cardinality(PlacesOf(accpeted_transactions, i)) +
              Cardinality(PlacesOf(rejected_transactions, i)) = 1
        /\ Cardinality(Places(accpeted_transactions)) +
           Cardinality(Places(rejected_transactions)) = NumTxns

\* A finished run of a full block with two transactions in one shard list and
\* both maps used.
C4_Witness ==
    /\ pc = "done"
    /\ NumTxns = MaxTxns
    /\ \/ \E s \in DOMAIN accpeted_transactions : Len(accpeted_transactions[s]) >= 2
       \/ \E s \in DOMAIN rejected_transactions : Len(rejected_transactions[s]) >= 2
    /\ DOMAIN accpeted_transactions # {}
    /\ DOMAIN rejected_transactions # {}

(***************************************************************************)
(* The run of partition that visits the dependents of every node in        *)
(* ascending index order.                                                  *)
(***************************************************************************)
RECURSIVE RefReverse(_, _)
RefReverse(i, statuses) ==
    IF i < 0 THEN statuses
    ELSE LET g == create_dependency_graph(transactions)
             tps == TxnsPerShard(NumTxns, num_shards)
             order == SortedSeq(DependentsOf(transactions, i))
         IN RefReverse(i - 1,
                MapInsert(statuses, i, ReverseStatus(IsDiscarded(g, statuses, tps, i, order))))

RECURSIVE RefSender(_, _, _)
RefSender(i, statuses, senders) ==
    IF i >= NumTxns THEN statuses
    ELSE LET r == SenderIteration(TxnAt(transactions, i), i, statuses, senders)
         IN RefSender(i + 1, r[1], r[2])

RECURSIVE RefEmit(_, _, _, _)
RefEmit(i, statuses, acc, rej) ==
    IF i >= NumTxns THEN <<acc, rej>>
    ELSE LET r == EmitIteration(TxnAt(transactions, i), i, statuses,
                                TxnsPerShard(NumTxns, num_shards), acc, rej)
         IN RefEmit(i + 1, statuses, r[1], r[2])

RefPartition ==
    IF NumTxns = 0 THEN EmptyResult
    ELSE RefEmit(0, RefSender(0, RefReverse(NumTxns - 1, EmptyMap), {}), EmptyMap, EmptyMap)

(***************************************************************************)
(* C9: partition is deterministic: whatever the order in which the         *)
(* dependents of each node were iterated, the run ends with the accepted   *)
(* and rejected maps of the run that iterates them in ascending order, so  *)
(* any two runs on the same input return identical maps.                   *)
(***************************************************************************)
C9_Deterministic ==
    pc = "done" =>
        /\ accpeted_transactions = RefPartition[1]
        /\ rejected_transactions = RefPartition[2]

\* A finished run in which a node had two dependents in different shards, one in
\* its own shard: the visiting order decides which one the loop meets first.
C9_Witness ==
    /\ pc = "done"
    /\ \E i \in DOMAIN graph :
          \E a, b \in graph[i] :
              /\ a # b
              /\ get_shard_for_index(txns_per_shard, a) = get_shard_for_index(txns_per_shard, i)
              /\ get_shard_for_index(txns_per_shard, b) # get_shard_for_index(txns_per_shard, i)
              /\ IsAccepted(b)

(***************************************************************************)
(* C10: partition on an empty transaction sequence returns an empty        *)
(* accepted map and an empty rejected map, for any num_shards.             *)
(***************************************************************************)
C10_EmptyBlock ==
    (pc = "done" /\ NumTxns = 0) =>
        /\ DOMAIN accpeted_transactions = {}
        /\ DOMAIN rejected_transactions = {}

\* The empty block was partitioned for several shards.
C10_Witness ==
    pc = "done" /\ NumTxns = 0 /\ num_shards = MaxShards

(***************************************************************************)
(* What positional chunking stores under a shard key.                      *)
(***************************************************************************)
\* The transactions of the input indices in S, in input order.
RECURSIVE TxnsOf(_)
TxnsOf(S) ==
    IF S = {} THEN <<>>
    ELSE LET m == CHOOSE x \in S : \A y \in S : x <= y
         IN <<TxnAt(transactions, m)>> \o TxnsOf(S \ {m})

\* The shard map that holds exactly the input indices in S, each under the key
\* index / ceil(N / num_shards), in input order; shards without index are absent.
ChunkMap(S) ==
    LET c == CeilDiv(NumTxns, num_shards)
    IN [sh \in {i \div c : i \in S} |-> TxnsOf({i \in S : i \div c = sh})]

(***************************************************************************)
(* C11: when the dependency graph has no edges, partition accepts all N    *)
(* transactions, the rejected map is empty, and the accepted map holds the *)
(* positional chunks: shard s holds the indices s*c .. s*c + c - 1 with    *)
(* c = ceil(N / num_shards), in input order.                               *)
(***************************************************************************)
C11_NoConflictAllAccepted ==
    (pc = "done" /\ NumTxns >= 1 /\ num_shards >= 1 /\ DOMAIN graph = {}) =>
        /\ rejected_transactions = EmptyMap
        /\ accpeted_transactions = ChunkMap(Indices)

\* A full block without edges, some transaction writing, was spread over
\* several shards with more than one transaction in a shard.
C11_Witness ==
    /\ pc = "done"
    /\ NumTxns = MaxTxns
    /\ DOMAIN graph = {}
    /\ \E i \in Indices : TxnAt(transactions, i).write_hints # {}
    /\ Cardinality(DOMAIN accpeted_transactions) >= 2
    /\ \E sh \in DOMAIN accpeted_transactions : Len(accpeted_transactions[sh]) >= 2

(***************************************************************************)
(* C12: when all N transactions have the same sender and every two of them *)
(* conflict, partition accepts exactly the first chunk, indices            *)
(* 0 .. ceil(N / num_shards) - 1, under shard 0, and rejects every higher  *)
(* index, each under its positional shard.                                 *)
(***************************************************************************)
SingleSenderBlock ==
    /\ \A i \in Indices :
          /\ IsSome(TxnAt(transactions, i).sender)
          /\ TxnAt(transactions, i).sender = TxnAt(transactions, 0).sender
    /\ \A i, j \in Indices :
          i < j => Conflicts(TxnAt(transactions, i), TxnAt(transactions, j))

C12_WitnessFewer ==
    /\ pc = "done"
    /\ NumTxns = 2
    /\ num_shards = 4
    /\ SingleSenderBlock
    /\ DOMAIN accpeted_transactions = {0}
    /\ DOMAIN rejected_transactions = {1}


DataEntry(key, i) == MapGet(data[key], i)

\* Every entry of the tree strictly between i and t is a Done delta.
OnlyDoneDeltasBetween(tree, i, t) ==
    \A m \in (i + 1)..(t - 1) :
        m \in DOMAIN tree => (tree[m].flag = Done /\ tree[m].content.kind = "Delta")

\* Some entry of the tree strictly between i and t is a delta.
SomeDeltaBetween(tree, i, t) ==
    \E m \in (i + 1)..(t - 1) : m \in DOMAIN tree /\ tree[m].content.kind = "Delta"

\* The sum of the updates of the delta entries with lo < txn_idx <= hi.
RECURSIVE DeltaSum(_, _, _)
DeltaSum(tree, lo, hi) ==
    IF hi <= lo THEN 0
    ELSE DeltaSum(tree, lo, hi - 1) +
         (IF hi \in DOMAIN tree /\ tree[hi].content.kind = "Delta"
          THEN tree[hi].content.delta.update ELSE 0)

\* Applying to v the deltas between i and t in ascending order never leaves
\* [0, DeltaLimit].
StaysInBounds(v, tree, i, t) ==
    \A m \in i..(t - 1) : (v + DeltaSum(tree, i, m)) \in 0..DeltaLimit

\* The data half without the entries of key at txn_idx >= t.
DataBelow(key, t) ==
    [data EXCEPT ![key] = [i \in {j \in DOMAIN data[key] : j < t} |-> data[key][i]]]

\* The slots <<key, txn_idx>> whose entry, in either half, the step changes.
ChangedSlots ==
    {kj \in Keys \X TxnIdxs :
        \/ MapGet(data'[kj[1]], kj[2]) # MapGet(data[kj[1]], kj[2])
        \/ MapGet(code'.entries[kj[1]], kj[2]) # MapGet(code.entries[kj[1]], kj[2])}

\* The step is a write, add_delta, mark_estimate or delete at (k2, i).
CallAt(k2, i) ==
    \/ \E n \in Incarnations, op \in WriteOps : WriteCall(k2, <<i, n>>, op)
    \/ \E delta \in DeltaOps : AddDeltaCall(k2, i, delta)
    \/ MarkEstimateCall(k2, i)
    \/ DeleteCall(k2, i)

(***************************************************************************)
(* C5: fetch_data(k, t) never observes entries of k with txn_idx >= t: its *)
(* result is the one computed from the entries below t alone, and a write, *)
(* add_delta, mark_estimate or delete at an index >= t, on any key and by  *)
(* any worker, leaves the result of fetch_data(k, t) as it was.            *)
(***************************************************************************)
C5_ResultFromEntriesBelow ==
    \A key \in Keys, t \in FetchIdxs :
        fetch_data(key, t) = data_fetch_data(DataBelow(key, t), key, MaxTxnIdx + 1)

\* A call at (k2, i) counts in ops and changes no slot but (k2, i): only such
\* steps are looked at, and "CallAt(k2, i) => result kept" is evaluated as
\* "result kept, or not CallAt(k2, i)".
C5_CallAtOrAboveKeepsResult ==
    (ops' = ops + 1) =>
        LET changed == ChangedSlots
        IN \A k2 \in Keys, i \in TxnIdxs :
              (changed \subseteq {<<k2, i>>}) =>
                 \/ \A key \in Keys, t \in 0..i : fetch_data(key, t)' = fetch_data(key, t)
                 \/ ~CallAt(k2, i)

C5_InvisibleFuture ==
    [](C5_ResultFromEntriesBelow) /\ [][C5_CallAtOrAboveKeepsResult]_vars

\* A fetch_data(k, t) returned a value written below t while k holds an
\* entry at an index >= t.
C5_Witness ==
    /\ fetched.op = "fetch_data"
    /\ fetched.result.tag = "Versioned"
    /\ fetched.result = fetch_data(fetched.key, fetched.txn_idx)
    /\ \E i \in DOMAIN data[fetched.key] :
          /\ i >= fetched.txn_idx
          /\ data[fetched.key][i].content.kind = "Value"
          /\ data[fetched.key][i].content.value # fetched.result.value

(***************************************************************************)
(* C6: if the first entry the descending scan of fetch_data(k, t) reaches  *)
(* that is not a Done delta is flagged Estimate, at index j, the fetch     *)
(* returns Dependency(j), also when delta entries above j were             *)
(* accumulated; in particular after mark_estimate(k, j) on an existing     *)
(* entry fetch_data(k, j + 1) returns Dependency(j).                       *)
(***************************************************************************)
C6_EstimateIsDependency ==
    \A key \in Keys, t \in FetchIdxs, j \in TxnIdxs :
        (/\ j < t
         /\ j \in DOMAIN data[key]
         /\ data[key][j].flag = Estimate
         /\ OnlyDoneDeltasBetween(data[key], j, t))
        => fetch_data(key, t) = Dependency(j)

\* (a mark_estimate counts in ops, so only such steps are looked at)
C6_MarkEstimateBlocksReaders ==
    (ops' = ops + 1) =>
    \A key \in DataKeys, j \in TxnIdxs :
        (MarkEstimateCall(key, j) /\ j \in DOMAIN data[key])
        => (~panicked' /\ fetch_data(key, j + 1)' = Dependency(j))

C6_EstimatePropagation ==
    [](C6_EstimateIsDependency) /\ [][C6_MarkEstimateBlocksReaders]_vars

\* A fetch returned Dependency(j) after passing a delta above j.
C6_Witness ==
    /\ fetched.op = "fetch_data"
    /\ fetched.result.tag = "Dependency"
    /\ fetched.result = fetch_data(fetched.key, fetched.txn_idx)
    /\ SomeDeltaBetween(data[fetched.key], fetched.result.txn_idx, fetched.txn_idx)

(***************************************************************************)
(* C7 as stated: when the highest non-delta entry of k below t is a Done   *)
(* Value v written at version (i, n) and no Estimate lies between i and t, *)
(* fetch_data(k, t) returns Versioned((i, n), v + the deltas between).     *)
(***************************************************************************)
C7_LatestPredecessorAlways ==
    \A key \in Keys, t \in FetchIdxs, i \in TxnIdxs :
        (/\ i < t
         /\ i \in DOMAIN data[key]
         /\ data[key][i].flag = Done
         /\ data[key][i].content.kind = "Value"
         /\ OnlyDoneDeltasBetween(data[key], i, t))
        => fetch_data(key, t) =
              Versioned(<<i, data[key][i].incarnation>>,
                        data[key][i].content.value + DeltaSum(data[key], i, t - 1))

(***************************************************************************)
(* C7 amended: under the same conditions fetch_data(k, t) returns          *)
(* Versioned((i, n), v + the deltas between) provided that applying those  *)
(* deltas to v in ascending txn_idx order keeps every intermediate value   *)
(* within [0, limit]; otherwise it returns DeltaApplicationFailure.  Right *)
(* after write(k, (i, n), Value(v)), fetch_data(k, i + 1) returns          *)
(* Versioned((i, n), v).                                                   *)
(***************************************************************************)
C7_LatestPredecessorInBounds ==
    \A key \in Keys, t \in FetchIdxs, i \in TxnIdxs :
        (/\ i < t
         /\ i \in DOMAIN data[key]
         /\ data[key][i].flag = Done
         /\ data[key][i].content.kind = "Value"
         /\ OnlyDoneDeltasBetween(data[key], i, t))
        => fetch_data(key, t) =
              IF StaysInBounds(data[key][i].content.value, data[key], i, t)
              THEN Versioned(<<i, data[key][i].incarnation>>,
                             data[key][i].content.value + DeltaSum(data[key], i, t - 1))
              ELSE DeltaApplicationFailure

\* (a write counts in ops, so only such steps are looked at)
C7_WriteIsRead ==
    (ops' = ops + 1) =>
        \A key \in DataKeys, i \in TxnIdxs, n \in Incarnations, v \in Values :
            WriteCall(key, <<i, n>>, Value(v))
            => fetch_data(key, i + 1)' = Versioned(<<i, n>>, v)

C7_LatestPredecessor ==
    [](C7_LatestPredecessorInBounds) /\ [][C7_WriteIsRead]_vars

\* A fetch returned the value materialized from a base value of the highest
\* incarnation and two deltas above it.
C7_Witness ==
    /\ fetched.op = "fetch_data"
    /\ fetched.result.tag = "Versioned"
    /\ fetched.result = fetch_data(fetched.key, fetched.txn_idx)
    /\ fetched.result.version[2] = MaxIncarnation
    /\ Cardinality({m \in DOMAIN data[fetched.key] :
            /\ m > fetched.result.version[1]
            /\ m < fetched.txn_idx
            /\ data[fetched.key][m].content.kind = "Delta"}) >= 2

(***************************************************************************)
(* C8: read-suspend and retry.  A fetch_data never returns Dependency(i)   *)
(* while entry i is Done (or absent).  When a fetch_data(k, t) returns     *)
(* Dependency(i) and write(k, (i, n'), Value(v')) then overwrites the      *)
(* entry, the Estimate flag is gone and fetch_data(k, t) returns           *)
(* Versioned((i, n'), v') - with the deltas between i and t applied to v', *)
(* if there are any (DeltaApplicationFailure if they leave the bounds).    *)
(***************************************************************************)
C8_DependencyOnlyOnEstimate ==
    (fetched' # fetched /\ fetched'.op = "fetch_data" /\ fetched'.result.tag = "Dependency")
    => /\ fetched'.result.txn_idx < fetched'.txn_idx
       /\ DataEntry(fetched'.key, fetched'.result.txn_idx) # None
       /\ data[fetched'.key][fetched'.result.txn_idx].flag = Estimate

\* (a write counts in ops, so only such steps are looked at)
C8_OverwriteReleasesReaders ==
    (ops' = ops + 1) =>
    \A key \in DataKeys, i \in TxnIdxs, t \in FetchIdxs :
        (i < t /\ fetch_data(key, t) = Dependency(i)) =>
            \A n \in Incarnations, v \in Values :
                WriteCall(key, <<i, n>>, Value(v)) =>
                    /\ fetch_data(key, t)' =
                          IF StaysInBounds(v, data[key], i, t)
                          THEN Versioned(<<i, n>>, v + DeltaSum(data[key], i, t - 1))
                          ELSE DeltaApplicationFailure
                    /\ ~SomeDeltaBetween(data[key], i, t)
                          => fetch_data(key, t)' = Versioned(<<i, n>>, v)

C8_SuspendAndRetry ==
    [][C8_DependencyOnlyOnEstimate /\ C8_OverwriteReleasesReaders]_vars

\* A worker repeated the fetch that had returned a Dependency and got the value
\* of the next incarnation.
C8_Witness ==
    /\ fetched.op = "fetch_data"
    /\ fetched.retry
    /\ fetched.result.tag = "Versioned"
    /\ fetched.result.version[2] = MaxIncarnation
    /\ fetched.result = fetch_data(fetched.key, fetched.txn_idx)

(***************************************************************************)
(* Reading the store: keys that hold deltas only.                          *)
(***************************************************************************)
\* Every entry of the tree below t is a Done delta.
OnlyDoneDeltasBelow(tree, t) == OnlyDoneDeltasBetween(tree, -1, t)

\* Some entry of the tree lies below t.
SomeEntryBelow(tree, t) == \E m \in DOMAIN tree : m < t

\* Composing the deltas below t from the highest txn_idx downwards never leaves
\* [-DeltaLimit, DeltaLimit].
ComposeStaysInBounds(tree, t) ==
    \A m \in 0..(t - 1) : DeltaSum(tree, m - 1, t - 1) \in (-DeltaLimit)..DeltaLimit

(***************************************************************************)
(* C14 as stated: when every entry of k below t is a Done delta (and there *)
(* is one), fetch_data(k, t) returns the only-deltas outcome carrying the  *)
(* sum of all those deltas.                                                *)
(***************************************************************************)
C14_OnlyDeltasAlwaysUnresolved ==
    \A key \in Keys, t \in FetchIdxs :
        (SomeEntryBelow(data[key], t) /\ OnlyDoneDeltasBelow(data[key], t))
        => fetch_data(key, t) = Unresolved(DeltaOp(DeltaSum(data[key], -1, t - 1)))

(***************************************************************************)
(* C14 amended: when every entry of k below t is a Done delta (and there   *)
(* is one), fetch_data(k, t) returns the only-deltas outcome carrying the  *)
(* sum of all those deltas provided that composing them stays within the   *)
(* delta's bound, and DeltaApplicationFailure otherwise; in neither case   *)
(* NotFound or a Versioned value.  With no entry of k below t it returns   *)
(* NotFound.                                                               *)
(***************************************************************************)
C14_OnlyDeltasUnresolved ==
    \A key \in Keys, t \in FetchIdxs :
        /\ (SomeEntryBelow(data[key], t) /\ OnlyDoneDeltasBelow(data[key], t))
           => /\ fetch_data(key, t) =
                    IF ComposeStaysInBounds(data[key], t)
                    THEN Unresolved(DeltaOp(DeltaSum(data[key], -1, t - 1)))
                    ELSE DeltaApplicationFailure
              /\ fetch_data(key, t).tag \notin {"NotFound", "Versioned"}
        /\ ~SomeEntryBelow(data[key], t) => fetch_data(key, t) = NotFound

\* A fetch returned the composition of two deltas that do not cancel, on a key
\* that also holds an entry the fetch must not see.
C14_Witness ==
    /\ fetched.op = "fetch_data"
    /\ fetched.result.tag = "Unresolved"
    /\ fetched.result = fetch_data(fetched.key, fetched.txn_idx)
    /\ Cardinality({m \in DOMAIN data[fetched.key] : m < fetched.txn_idx}) >= 2
    /\ \E m \in DOMAIN data[fetched.key] : m >= fetched.txn_idx

(***************************************************************************)
(* C15: when the descending scan of fetch_data(k, t) reaches a Deletion    *)
(* entry (every entry between it and t being a Done delta), the fetch      *)
(* returns DeltaApplicationFailure if at least one delta lies above the    *)
(* Deletion and NotFound if none does.                                     *)
(***************************************************************************)
C15_DeletionBelowDeltas ==
    \A key \in Keys, t \in FetchIdxs, i \in TxnIdxs :
        (/\ i < t
         /\ i \in DOMAIN data[key]
         /\ data[key][i].flag = Done
         /\ data[key][i].content.kind = "Deletion"
         /\ OnlyDoneDeltasBetween(data[key], i, t))
        => fetch_data(key, t) =
              IF SomeDeltaBetween(data[key], i, t)
              THEN DeltaApplicationFailure
              ELSE NotFound

\* A fetch failed on a Deletion below a delta, and the fetch just above the
\* Deletion finds nothing.
C15_Witness ==
    /\ fetched.op = "fetch_data"
    /\ fetched.result = DeltaApplicationFailure
    /\ fetched.result = fetch_data(fetched.key, fetched.txn_idx)
    /\ \E i \in DOMAIN data[fetched.key] :
          /\ i < fetched.txn_idx
          /\ data[fetched.key][i].content.kind = "Deletion"
          /\ data[fetched.key][i].flag = Done
          /\ OnlyDoneDeltasBetween(data[fetched.key], i, fetched.txn_idx)
          /\ SomeDeltaBetween(data[fetched.key], i, fetched.txn_idx)
          /\ fetch_data(fetched.key, i + 1) = NotFound

(***************************************************************************)
(* C16: if applying the accumulated deltas to the base value leaves        *)
(* [0, limit], or composing them leaves the delta's bound, fetch_data      *)
(* returns DeltaApplicationFailure; a number it does return is the exact   *)
(* sum, never a wrapped or truncated one; and the fetch that fails leaves  *)
(* the store as it was.                                                    *)
(***************************************************************************)
\* The highest entry of the tree below t that is not a Done delta, if any.
BaseBelow(tree, t) ==
    {i \in DOMAIN tree : i < t /\ OnlyDoneDeltasBetween(tree, i, t)
                               /\ ~(tree[i].flag = Done /\ tree[i].content.kind = "Delta")}

C16_OutOfBoundsIsFailure ==
    \A key \in Keys, t \in FetchIdxs :
        LET tree == data[key]
            r == fetch_data(key, t)
        IN /\ \A i \in BaseBelow(tree, t) :
                 (/\ tree[i].flag = Done
                  /\ tree[i].content.kind = "Value"
                  /\ ~StaysInBounds(tree[i].content.value, tree, i, t))
                 => r = DeltaApplicationFailure
           /\ (/\ BaseBelow(tree, t) = {}
               /\ SomeEntryBelow(tree, t)
               /\ ~ComposeStaysInBounds(tree, t))
              => r = DeltaApplicationFailure
           /\ r.tag = "Versioned" =>
                 /\ r.value \in 0..DeltaLimit
                 /\ r.value = tree[r.version[1]].content.value
                                 + DeltaSum(tree, r.version[1], t - 1)
           /\ r.tag = "Unresolved" =>
                 /\ r.delta.update \in (-DeltaLimit)..DeltaLimit
                 /\ r.delta.update = DeltaSum(tree, -1, t - 1)

C16_FailureLeavesStore ==
    (fetched' # fetched /\ fetched'.result = DeltaApplicationFailure)
    => (data' = data /\ code' = code /\ panicked' = panicked)

C16_DeltaOverflow ==
    [](C16_OutOfBoundsIsFailure) /\ [][C16_FailureLeavesStore]_vars

\* A fetch failed because the deltas took a written value above the ceiling.
C16_Witness ==
    /\ fetched.op = "fetch_data"
    /\ fetched.result = DeltaApplicationFailure
    /\ fetched.result = fetch_data(fetched.key, fetched.txn_idx)
    /\ \E i \in BaseBelow(data[fetched.key], fetched.txn_idx) :
          /\ data[fetched.key][i].flag = Done
          /\ data[fetched.key][i].content.kind = "Value"
          /\ data[fetched.key][i].content.value
                + DeltaSum(data[fetched.key], i, fetched.txn_idx - 1) > DeltaLimit

(***************************************************************************)
(* C17: delta materialization is order-independent.  For a base value and  *)
(* the deltas between it and t, every order of applying the deltas that    *)
(* stays within [0, limit] yields the same value, the one fetch_data       *)
(* returns when it returns a value; and every order of composing the       *)
(* deltas of a key holding deltas only that stays within the bound yields  *)
(* the same delta, the one fetch_data returns as the only-deltas outcome.  *)
(***************************************************************************)
\* The indices of the entries of the tree strictly between i and t.
IdxsBetween(tree, i, t) == {m \in DOMAIN tree : i < m /\ m < t}

\* The deltas of the tree at the indices order[1], order[2], ...
DeltasInOrder(tree, order) == [n \in 1..Len(order) |-> tree[order[n]].content.delta]

C17_ApplyOrderIndependent ==
    \A key \in Keys, t \in FetchIdxs :
        \A i \in BaseBelow(data[key], t) :
            (data[key][i].flag = Done /\ data[key][i].content.kind = "Value") =>
                LET tree == data[key]
                    v == tree[i].content.value
                    orders == IterationOrders(IdxsBetween(tree, i, t))
                    inBounds == {p \in orders : ApplyDeltas(v, DeltasInOrder(tree, p)) # None}
                IN /\ \A p, q \in inBounds :
                         ApplyDeltas(v, DeltasInOrder(tree, p)) =
                         ApplyDeltas(v, DeltasInOrder(tree, q))
                   /\ fetch_data(key, t).tag = "Versioned" =>
                         \A p \in inBounds :
                             Unwrap(ApplyDeltas(v, DeltasInOrder(tree, p))) =
                             fetch_data(key, t).value

C17_ComposeOrderIndependent ==
    \A key \in Keys, t \in FetchIdxs :
        (BaseBelow(data[key], t) = {} /\ SomeEntryBelow(data[key], t)) =>
            LET tree == data[key]
                orders == IterationOrders(IdxsBetween(tree, -1, t))
                inBounds == {p \in orders : ComposeDeltas(DeltasInOrder(tree, p)) # None}
            IN /\ \A p, q \in inBounds :
                     ComposeDeltas(DeltasInOrder(tree, p)) =
                     ComposeDeltas(DeltasInOrder(tree, q))
               /\ fetch_data(key, t).tag = "Unresolved" =>
                     \A p \in inBounds :
                         Unwrap(ComposeDeltas(DeltasInOrder(tree, p))) =
                         fetch_data(key, t).delta

C17_OrderIndependent == C17_ApplyOrderIndependent /\ C17_ComposeOrderIndependent

\* A fetch materialized a value from a base and two different deltas, of which
\* one order of application leaves the bounds and the other does not.
C17_Witness ==
    /\ fetched.op = "fetch_data"
    /\ fetched.result.tag = "Versioned"
    /\ fetched.result = fetch_data(fetched.key, fetched.txn_idx)
    /\ LET tree == data[fetched.key]
           i == fetched.result.version[1]
           orders == IterationOrders(IdxsBetween(tree, i, fetched.txn_idx))
       IN /\ Cardinality(IdxsBetween(tree, i, fetched.txn_idx)) = 2
          /\ \E p \in orders :
                ApplyDeltas(tree[i].content.value, DeltasInOrder(tree, p)) = None

(***************************************************************************)
(* C18: mark_estimate(k, i) and delete(k, i) on a missing entry panic and  *)
(* return no error value; on an existing entry delete removes exactly that *)
(* entry and mark_estimate sets exactly that entry's flag to Estimate,     *)
(* everything else in both halves staying as it was.                       *)
(***************************************************************************)
\* The entries of key in the half its module_path() selects.
EntriesOf(key) == IF module_path(key) # None THEN code.entries[key] ELSE data[key]

\* A step that changes the entries of key to tree and nothing else.
OnlyEntriesOfBecome(key, tree) ==
    IF module_path(key) # None
    THEN data' = data /\ code' = [code EXCEPT !.entries[key] = tree]
    ELSE code' = code /\ data' = [data EXCEPT ![key] = tree]

C18_MarkEstimate ==
    \A key \in Keys, i \in TxnIdxs :
        MarkEstimateCall(key, i) =>
            IF i \in DOMAIN EntriesOf(key)
            THEN /\ ~panicked'
                 /\ OnlyEntriesOfBecome(key, [EntriesOf(key) EXCEPT ![i].flag = Estimate])
            ELSE panicked' /\ data' = data /\ code' = code

C18_Delete ==
    \A key \in Keys, i \in TxnIdxs :
        DeleteCall(key, i) =>
            IF i \in DOMAIN EntriesOf(key)
            THEN /\ ~panicked'
                 /\ OnlyEntriesOfBecome(key,
                       [m \in (DOMAIN EntriesOf(key)) \ {i} |-> EntriesOf(key)[m]])
            ELSE panicked' /\ data' = data /\ code' = code

\* (both calls count in ops, so only such steps are looked at)
C18_MissingEntryIsFatal ==
    [][(ops' = ops + 1) => (C18_MarkEstimate /\ C18_Delete)]_vars

\* An entry was flagged Estimate and the call after it panicked.
C18_Witness ==
    /\ panicked
    /\ ops = MaxOps
    /\ \E key \in DataKeys, i \in TxnIdxs :
          /\ i \in DOMAIN data[key]
          /\ data[key][i].flag = Estimate

(***************************************************************************)
(* C19 as stated: add_delta(k, i, d) with k a module path is rejected as a *)
(* contract violation, and no reachable state of the store holds a delta   *)
(* under a module-path key, in either half.                                *)
(***************************************************************************)
NoDeltaUnder(tree) == \A i \in DOMAIN tree : tree[i].content.kind # "Delta"

C20_TakeReturnsHalves == take = <<data, code>>

C20_ReuseKeepsCode ==
    ReuseCodeCache =>
        \A key \in Keys, t \in FetchIdxs :
            /\ fetch_code(key, t)' = fetch_code(key, t)
            /\ fetch_data(key, t)' = NotFound

C20_DropIsEmpty ==
    DropCodeCache =>
        \A key \in Keys, t \in FetchIdxs :
            /\ fetch_code(key, t)' = NotFound
            /\ fetch_data(key, t)' = NotFound

\* (both constructions count in ops, so only such steps are looked at)
C20_CodeCacheHandoff ==
    /\ [](C20_TakeReturnsHalves)
    /\ [][(ops' = ops + 1) => (C20_ReuseKeepsCode /\ C20_DropIsEmpty)]_vars

\* A store whose data half is empty again after a fetch_data had found a value
\* in it, and whose code half answers a fetch_code with an executable.
C20_Witness ==
    /\ fetched.op = "fetch_data"
    /\ fetched.result.tag = "Versioned"
    /\ \A key \in Keys : data[key] = EmptyMap
    /\ \E key \in ModuleKeys : fetch_code(key, MaxTxnIdx + 1).tag = "Module"

(***************************************************************************)
(* C21 as stated: write(k, (i, n), op) leaves at (k, i) one entry that     *)
(* holds op, the incarnation n and the flag Done, for every key k.         *)
(***************************************************************************)
C21_WriteRecordsVersion ==
    [][(ops' = ops + 1) =>
        \A key \in Keys, version \in Versions, op \in WriteOps :
            WriteCall(key, version, op) =>
                /\ version[1] \in DOMAIN EntriesOf(key)'
                /\ LET e == EntriesOf(key)'[version[1]]
                   IN /\ e.content = op
                      /\ e.flag = Done
                      /\ "incarnation" \in DOMAIN e
                      /\ e.incarnation = version[2]]_vars

(***************************************************************************)
(* C21 amended: every key holds at most one entry per txn_idx; write(k,    *)
(* (i, n), op) inserts or replaces the entry at (k, i), everything else    *)
(* staying as it was: for a key that is no module path the entry holds op, *)
(* the incarnation n and the flag Done; for a module path it holds op and  *)
(* the flag Done, and the incarnation is not recorded (the code half is    *)
(* given version.0 only).  The same write performed again leaves the store *)
(* as the first one left it.                                               *)
(***************************************************************************)
\* The entries of a key form a map from txn_idx to one entry each.
C21_OneEntryPerSlot ==
    \A key \in Keys :
        /\ DOMAIN data[key] \subseteq TxnIdxs
        /\ DOMAIN code.entries[key] \subseteq TxnIdxs
        /\ data[key] = [i \in DOMAIN data[key] |-> data[key][i]]
        /\ code.entries[key] = [i \in DOMAIN code.entries[key] |-> code.entries[key][i]]

\* The entry write(k, (i, n), op) leaves at (k, i).
WrittenEntry(key, version, op) ==
    IF module_path(key) # None
    THEN [content |-> op, flag |-> Done]
    ELSE [incarnation |-> version[2], content |-> op, flag |-> Done]

C21_WriteInsertsOrReplaces ==
    \A key \in Keys, version \in Versions, op \in WriteOps :
        WriteCall(key, version, op) =>
            /\ ~panicked'
            /\ OnlyEntriesOfBecome(key,
                  [i \in (DOMAIN EntriesOf(key)) \cup {version[1]} |->
                      IF i = version[1] THEN WrittenEntry(key, version, op)
                      ELSE EntriesOf(key)[i]])
            /\ write(key, version, op)'.data = data'
            /\ write(key, version, op)'.code = code'
            /\ ~write(key, version, op)'.panic

\* (a write counts in ops, so only such steps are looked at)
C21_WriteIdempotent ==
    [](C21_OneEntryPerSlot) /\ [][(ops' = ops + 1) => C21_WriteInsertsOrReplaces]_vars

\* A fetch had read incarnation 0 of an entry, and the one call that changed
\* the store since the first write replaced it by a higher incarnation.
C21_Witness ==
    /\ ops = 2
    /\ fetched.op = "fetch_data"
    /\ fetched.result.tag = "Versioned"
    /\ fetched.result.version[2] = 0
    /\ DOMAIN data[fetched.key] = {fetched.result.version[1]}
    /\ data[fetched.key][fetched.result.version[1]].incarnation = 1
    /\ data[fetched.key][fetched.result.version[1]].flag = Done

(***************************************************************************)
(* C22: fetch_code(k, t) looks at the entry of k with the highest txn_idx  *)
(* below t: without such an entry it returns NotFound; if the entry is     *)
(* flagged Estimate, at index j, it returns Dependency(j); if it is a Done *)
(* write of module bytes with descriptor d, it returns Executable(x, d)    *)
(* when an executable x is stored for k under d and Module(bytes, d)       *)
(* otherwise.  After store_executable(k, d, x) every fetch_code on k that  *)
(* resolved to d returns Executable(x, d).                                 *)
(***************************************************************************)
\* The txn_idx of the module entries of key below t.
CodeIdxsBelow(key, t) == {j \in DOMAIN code.entries[key] : j < t}

\* The descriptor of published module bytes.
DescriptorOf(bytes) == PublishedModuleHash(HashOf(bytes))

C22_FetchCodeResult ==
    \A key \in Keys, t \in FetchIdxs :
        IF CodeIdxsBelow(key, t) = {}
        THEN fetch_code(key, t) = NotFound
        ELSE LET j == CHOOSE m \in CodeIdxsBelow(key, t) :
                          \A n \in CodeIdxsBelow(key, t) : n <= m
                 e == code.entries[key][j]
             IN /\ e.flag = Estimate => fetch_code(key, t) = Dependency(j)
                /\ (e.flag = Done /\ e.content.kind = "Value") =>
                      LET d == DescriptorOf(e.content.value)
                      IN IF d \in DOMAIN code.executables[key]
                         THEN fetch_code(key, t) = Executable(code.executables[key][d], d)
                         ELSE fetch_code(key, t) = Module(e.content.value, d)

C22_StoreExecutableIsFetched ==
    \A key \in Keys, d \in Descriptors, x \in Executables :
        StoreExecutableCall(key, d, x) =>
            /\ ~panicked'
            /\ data' = data
            /\ code'.entries = code.entries
            /\ \A t \in FetchIdxs :
                  (/\ fetch_code(key, t).tag \in {"Module", "Executable"}
                   /\ fetch_code(key, t).descriptor = d)
                  => fetch_code(key, t)' = Executable(x, d)

\* (a store_executable counts in ops, so only such steps are looked at)
C22_FetchCode ==
    [](C22_FetchCodeResult) /\ [][(ops' = ops + 1) => C22_StoreExecutableIsFetched]_vars

\* A fetch_code returned the executable stored for the module written below
\* its index while the key holds other module bytes at a higher index.
C22_Witness ==
    /\ fetched.op = "fetch_code"
    /\ fetched.result.tag = "Executable"
    /\ fetched.result = fetch_code(fetched.key, fetched.txn_idx)
    /\ \E i \in DOMAIN code.entries[fetched.key] :
          /\ i >= fetched.txn_idx
          /\ code.entries[fetched.key][i].content.kind = "Value"
          /\ DescriptorOf(code.entries[fetched.key][i].content.value)
                # fetched.result.descriptor

(***************************************************************************)
(* The store under concurrent workers.  Each half keeps, per key, an       *)
(* ordered map guarded by its own lock (DashMap): a call takes the lock of *)
(* the key in the half it is routed to, works on the map, and releases     *)
(* the lock.  A call that changes an entry stores its content first and    *)
(* the remaining fields, insertions and removals when it finishes, so the  *)
(* map is half-written in between.  A fetch is requested, waits for the    *)
(* lock, and scans the map while it holds the lock.  Here fetched is what  *)
(* the step just taken returned to its caller: the result of the fetch     *)
(* that ran, or nothing.                                                   *)
(***************************************************************************)
\* The number of calls that change the store which the workers make.
MaxStripeOps == 2

\* The half a call is routed to.
HalfOf(op, key) ==
    IF op \in {"write", "mark_estimate", "delete"}
    THEN IF module_path(key) # None THEN "code" ELSE "data"
    ELSE IF op = "fetch_code" THEN "code" ELSE "data"

StripeOf(call) == <<HalfOf(call.op, call.key), call.key>>

\* The ordered map a stripe guards, in the store <<d, c>>.
TreeOf(d, c, stripe) ==
    IF stripe[1] = "data" THEN d[stripe[2]] ELSE c.entries[stripe[2]]

\* The store <<d, c>> with the map of the stripe replaced by tree.
WithTree(d, c, stripe, tree) ==
    IF stripe[1] = "data"
    THEN <<[d EXCEPT ![stripe[2]] = tree], c>>
    ELSE <<d, [c EXCEPT !.entries[stripe[2]] = tree]>>

\* The calls of the workers that change entries.
UpdateCalls ==
    {[op |-> "write", key |-> key, txn_idx |-> v[1], incarnation |-> v[2], value |-> op] :
        key \in Keys, v \in Versions, op \in WriteOps}
    \cup {[op |-> "add_delta", key |-> key, txn_idx |-> i, delta |-> d] :
        key \in Keys, i \in TxnIdxs, d \in DeltaOps}
    \cup {[op |-> o, key |-> key, txn_idx |-> i] :
        o \in {"mark_estimate", "delete"}, key \in Keys, i \in TxnIdxs}

\* The fetches of the workers: from above every entry, so that the scan passes
\* over the whole map of the key.
FetchCalls ==
    {[op |-> o, key |-> key, txn_idx |-> MaxTxnIdx + 1] :
        o \in {"fetch_data", "fetch_code"}, key \in Keys}

\* The stores a call may leave (add_delta: with and without debug assertions).
Outcomes(call) ==
    IF call.op = "write"
    THEN {write(call.key, <<call.txn_idx, call.incarnation>>, call.value)}
    ELSE IF call.op = "add_delta"
    THEN {add_delta_debug(call.key, call.txn_idx, call.delta),
          add_delta_release(call.key, call.txn_idx, call.delta)}
    ELSE IF call.op = "mark_estimate"
    THEN {mark_estimate(call.key, call.txn_idx)}
    ELSE {delete(call.key, call.txn_idx)}

\* What a fetch returns from the store <<d, c>>.
FetchResult(call, d, c) ==
    IF call.op = "fetch_data"
    THEN data_fetch_data(d, call.key, call.txn_idx)
    ELSE code_fetch_code(c, call.key, call.txn_idx)

\* The map of a call in progress: the content of a replaced entry is stored,
\* its other fields are not yet.  An entry of another shape (a delta replaced
\* by a write or a write by a delta) is exchanged as a whole at the end.
HalfWritten(before, after, i) ==
    IF i \in DOMAIN before /\ i \in DOMAIN after /\ DOMAIN before[i] = DOMAIN after[i]
    THEN [before EXCEPT ![i].content = after[i].content]
    ELSE before

\* A lock that every worker finds free.
StripeFreeAlways(stripe) == TRUE

StripeFree(stripe) == stripe_lock[stripe] = None

Holding(w) == in_flight[w].phase = "holding"

\* A worker takes the lock of the call's stripe and starts to change the map.
\* A call that panics changes nothing.
BeginCall(w, call) ==
    /\ ~panicked
    /\ ops < MaxStripeOps
    /\ in_flight[w] = Idle
    /\ StripeFree(StripeOf(call))
    /\ \E r \in Outcomes(call) :
          IF r.panic
          THEN /\ panicked' = TRUE
               /\ UNCHANGED <<data, code, svars>>
          ELSE LET s == StripeOf(call)
                   before == TreeOf(data, code, s)
                   after == TreeOf(r.data, r.code, s)
                   st == WithTree(data, code, s, HalfWritten(before, after, call.txn_idx))
               IN /\ data' = st[1]
                  /\ code' = st[2]
                  /\ panicked' = FALSE
                  /\ stripe_lock' = [stripe_lock EXCEPT ![s] = Some(w)]
                  /\ in_flight' = [in_flight EXCEPT ![w] =
                        [phase |-> "holding", call |-> call,
                         before |-> before, after |-> after]]
    /\ ops' = ops + 1
    /\ fetched' = NoFetch
    /\ UNCHANGED pvars

\* The worker completes the change and releases the lock.
FinishCall(w) ==
    /\ ~panicked
    /\ Holding(w)
    /\ LET s == StripeOf(in_flight[w].call)
           st == WithTree(data, code, s, in_flight[w].after)
       IN /\ data' = st[1]
          /\ code' = st[2]
          /\ stripe_lock' = [stripe_lock EXCEPT ![s] = None]
    /\ in_flight' = [in_flight EXCEPT ![w] = Idle]
    /\ fetched' = NoFetch
    /\ UNCHANGED <<panicked, ops, pvars>>

\* A worker calls fetch_data or fetch_code; blocked tells that the lock was
\* held by another worker at that moment.
RequestFetch(w, call) ==
    /\ ~panicked
    /\ in_flight[w] = Idle
    /\ in_flight' = [in_flight EXCEPT ![w] =
          [phase |-> "waiting", call |-> call, blocked |-> ~StripeFree(StripeOf(call))]]
    /\ fetched' = NoFetch
    /\ UNCHANGED <<stripe_lock, data, code, panicked, ops, pvars>>

\* The fetch gets the lock, scans the map and returns.
RunFetch(w) ==
    /\ ~panicked
    /\ in_flight[w].phase = "waiting"
    /\ StripeFree(StripeOf(in_flight[w].call))
    /\ fetched' = [op |-> in_flight[w].call.op,
                   key |-> in_flight[w].call.key,
                   txn_idx |-> in_flight[w].call.txn_idx,
                   result |-> FetchResult(in_flight[w].call, data, code),
                   retry |-> FALSE,
                   blocked |-> in_flight[w].blocked]
    /\ in_flight' = [in_flight EXCEPT ![w] = Idle]
    /\ UNCHANGED <<stripe_lock, data, code, panicked, ops, pvars>>

NextStripes ==
    \/ \E w \in Workers, call \in UpdateCalls : BeginCall(w, call)
    \/ \E w \in Workers : FinishCall(w)
    \/ \E w \in Workers, call \in FetchCalls : RequestFetch(w, call)
    \/ \E w \in Workers : RunFetch(w)

SpecStripes == InitStore /\ [][NextStripes]_vars

(***************************************************************************)
(* C23: calls on the same key of a half exclude each other and are atomic: *)
(* no two workers are inside a call on the same map; a fetch returns what  *)
(* the scan finds in the map as it is entirely before or entirely after    *)
(* each call in progress on it, never from a half-written map; and a step  *)
(* of a call on a key leaves the result of every fetch on any other key    *)
(* as it was.                                                              *)
(***************************************************************************)
C23_MutualExclusion ==
    /\ \A w1, w2 \in Workers :
          (w1 # w2 /\ Holding(w1) /\ Holding(w2)) =>
              StripeOf(in_flight[w1].call) # StripeOf(in_flight[w2].call)
    /\ \A s \in Stripes :
          stripe_lock[s] = None <=>
              ~(\E w \in Workers : Holding(w) /\ StripeOf(in_flight[w].call) = s)

\* The maps of a stripe as they are before or after every call in progress.
WholeTrees(s) ==
    LET holders == {w \in Workers : Holding(w) /\ StripeOf(in_flight[w].call) = s}
    IN IF holders = {} THEN {TreeOf(data, code, s)}
       ELSE UNION {{in_flight[w].before, in_flight[w].after} : w \in holders}

C23_FetchSeesWholeUpdates ==
    \A w \in Workers :
        RunFetch(w) =>
            LET call == in_flight[w].call
                s == StripeOf(call)
            IN \E tree \in WholeTrees(s) :
                  LET st == WithTree(data, code, s, tree)
                  IN fetched'.result = FetchResult(call, st[1], st[2])

C23_OtherKeysIndependent ==
    \A w \in Workers :
        (in_flight'[w] # in_flight[w]) =>
            LET call == IF in_flight[w] = Idle THEN in_flight'[w].call
                        ELSE in_flight[w].call
            IN \A key \in Keys \ {call.key}, t \in FetchIdxs :
                  /\ fetch_data(key, t)' = fetch_data(key, t)
                  /\ fetch_code(key, t)' = fetch_code(key, t)

\* (every step of a call but a panic changes in_flight)
C23_PerKeyAtomicity ==
    /\ [](C23_MutualExclusion)
    /\ [][(in_flight' # in_flight) =>
            (C23_FetchSeesWholeUpdates /\ C23_OtherKeysIndependent)]_vars

\* A fetch_data that was called while another worker held the lock of its key,
\* the entry half-written, returned the entry as the finished write left it.
C23_Witness ==
    /\ ops = 2
    /\ fetched.op = "fetch_data"
    /\ "blocked" \in DOMAIN fetched
    /\ fetched.blocked
    /\ fetched.result.tag = "Versioned"
    /\ fetched.result.version[2] = 1
    /\ fetched.result = fetch_data(fetched.key, fetched.txn_idx)
    /\ \A w \in Workers : in_flight[w] = Idle

(***************************************************************************)
(* C24: within every shard list of the accepted map and of the rejected    *)
(* map, transactions appear in increasing order of their input index.      *)
(***************************************************************************)
InInputOrder(m) ==
    \A sh \in DOMAIN m :
        \A p, q \in 1..Len(m[sh]) :
            p < q => IndexOfTxn(m[sh][p]) < IndexOfTxn(m[sh][q])

C24_IntraShardOrder ==
    pc \in {"emit", "done"} =>
        InInputOrder(accpeted_transactions) /\ InInputOrder(rejected_transactions)

\* A finished run with two transactions in an accepted list and two in a
\* rejected list.
C24_Witness ==
    /\ pc = "done"
    /\ \E sh \in DOMAIN accpeted_transactions : Len(accpeted_transactions[sh]) >= 2
    /\ \E sh \in DOMAIN rejected_transactions : Len(rejected_transactions[sh]) >= 2

(***************************************************************************)
(* C25: for N >= 1 and num_shards >= 1 every shard key of the accepted and *)
(* of the rejected map lies in 0 .. num_shards - 1, and no key maps to an  *)
(* empty list.                                                             *)
(***************************************************************************)
KeysInRange(m) ==
    \A sh \in DOMAIN m : sh \in 0..(num_shards - 1) /\ Len(m[sh]) >= 1

C25_ShardKeysInRange ==
    (pc \in {"emit", "done"} /\ NumTxns >= 1 /\ num_shards >= 1) =>
        KeysInRange(accpeted_transactions) /\ KeysInRange(rejected_transactions)

\* A finished run with a shard absent from the accepted map because all its
\* transactions were rejected, and a shard absent from both maps.
C25_Witness ==
    /\ pc = "done"
    /\ num_shards >= 2
    /\ \E sh \in DOMAIN rejected_transactions :
          sh >= 1 /\ sh \notin DOMAIN accpeted_transactions
    /\ \E sh \in 0..(num_shards - 1) :
          sh \notin (DOMAIN accpeted_transactions) \cup (DOMAIN rejected_transactions)

(***************************************************************************)
(* partition on any dependency graph.  DependencyGraph is built outside    *)
(* partition; the loops of partition only ask it for the dependent nodes   *)
(* of a node.  Here the graph is any assignment of a set of other nodes to *)
(* every node, so that the reverse loop also meets dependent nodes that    *)
(* already have a status.  The transactions have no sender and no hints.   *)
(***************************************************************************)
PlainBody == [sender |-> None, read_hints |-> {}, write_hints |-> {}]

\* The map a graph keeps: nodes with an empty set have no entry.
RestrictGraph(g) == [i \in {n \in DOMAIN g : g[n] # {}} |-> g[i]]

InitAnyGraphBlock ==
    /\ \E n \in 1..MaxTxns : transactions = MakeBlock([p \in 1..n |-> PlainBody])
    /\ num_shards \in 0..MaxShards
    /\ pc = "start"
    /\ index = 0
    /\ txns_per_shard = 0
    /\ graph = EmptyMap
    /\ txn_statuses = EmptyMap
    /\ discarded_senders = {}
    /\ accpeted_transactions = EmptyMap
    /\ rejected_transactions = EmptyMap

\* lines 35-40, with whatever graph create_dependency_graph returns.
SetupAnyGraph ==
    /\ UNCHANGED <<mvars, svars>>
    /\ pc = "start"
    /\ Len(transactions) # 0
    /\ txns_per_shard' = TxnsPerShard(Len(transactions), num_shards)
    /\ \E g \in [0..(Len(transactions) - 1) -> SUBSET (0..(Len(transactions) - 1))] :
          /\ \A i \in DOMAIN g : i \notin g[i]
          /\ graph' = RestrictGraph(g)
    /\ txn_statuses' = EmptyMap
    /\ index' = Len(transactions) - 1
    /\ pc' = "reverse"
    /\ UNCHANGED <<transactions, num_shards, discarded_senders,
                   accpeted_transactions, rejected_transactions>>

NextAnyGraph ==
    \/ SetupAnyGraph
    \/ ReverseStep
    \/ SenderStep
    \/ EmitStep

InitAnyGraph == InitAnyGraphBlock /\ InitMVS

SpecAnyGraph == InitAnyGraph /\ [][NextAnyGraph]_vars

(***************************************************************************)
(* C26: the reverse loop, going from index N-1 down to 0, marks index i    *)
(* Discarded if and only if some dependent node j of i is not marked       *)
(* Discarded at that moment and lies in another shard than i; otherwise it *)
(* marks i Accepted.  Dependent nodes already marked Discarded never make  *)
(* i Discarded.  The statuses of the other indices stay as they are.       *)
(***************************************************************************)
\* The dependent nodes of i that make the reverse loop discard i.
BlockingDependents(i) ==
    {j \in (IF i \in DOMAIN graph THEN graph[i] ELSE {}) :
        /\ MapGet(txn_statuses, j) # Some(Discarded)
        /\ get_shard_for_index(txns_per_shard, j) # get_shard_for_index(txns_per_shard, i)}

\* (a step taken at pc = "reverse" is one iteration of the reverse loop)
C26_ReverseScanRule ==
    [][pc = "reverse" =>
        /\ DOMAIN txn_statuses' = (DOMAIN txn_statuses) \cup {index}
        /\ \A k \in DOMAIN txn_statuses : k # index => txn_statuses'[k] = txn_statuses[k]
        /\ txn_statuses'[index] =
              (IF BlockingDependents(index) # {} THEN Discarded ELSE Accepted)
        /\ index' = (IF index = 0 THEN 0 ELSE index - 1)]_vars

\* The reverse loop has ended; it accepted a node with a dependent node of a
\* higher index in another shard that it had discarded before, and that node
\* had been discarded for an accepted node in another shard.
C26_Witness ==
    /\ pc = "sender"
    /\ index = 0
    /\ \E i \in DOMAIN graph :
          /\ txn_statuses[i] = Accepted
          /\ \E j \in graph[i] :
                /\ j > i
                /\ txn_statuses[j] = Discarded
                /\ get_shard_for_index(txns_per_shard, j)
                      # get_shard_for_index(txns_per_shard, i)
                /\ \E k \in graph[j] :
                      /\ k > j
                      /\ txn_statuses[k] = Accepted
                      /\ get_shard_for_index(txns_per_shard, k)
                            # get_shard_for_index(txns_per_shard, j)

(***************************************************************************)
(* The statuses at the end of the reverse loop.  Whether a node is         *)
(* discarded does not depend on the order in which its dependent nodes are *)
(* visited, so they are the statuses RefReverse computes.                  *)
(***************************************************************************)
ReverseStatuses == RefReverse(NumTxns - 1, EmptyMap)

SenderOf(i) == TxnAt(transactions, i).sender

(***************************************************************************)
(* C27: the sender loop is monotone: an iteration may turn a status from   *)
(* Accepted to Discarded and never from Discarded to Accepted, so every    *)
(* transaction the reverse loop marked Discarded is rejected, and not      *)
(* accepted, in the final output.                                          *)
(***************************************************************************)
\* (a step taken at pc = "sender" is one iteration of the sender loop)
C27_NeverReaccepted ==
    pc = "sender" =>
        /\ DOMAIN txn_statuses' = DOMAIN txn_statuses
        /\ \A i \in DOMAIN txn_statuses :
              txn_statuses[i] = Discarded => txn_statuses'[i] = Discarded

C27_ReverseDiscardedIsRejected ==
    /\ (pc = "sender" /\ index = 0) => txn_statuses = ReverseStatuses
    /\ pc = "done" =>
          LET rs == ReverseStatuses
          IN \A i \in Indices :
                rs[i] = Discarded => (IsRejected(i) /\ ~IsAccepted(i))

C27_SenderPassMonotone ==
    [](C27_ReverseDiscardedIsRejected) /\ [][C27_NeverReaccepted]_vars

\* A finished run that rejected a transaction without a sender, discarded by the
\* reverse loop, and a transaction the reverse loop had accepted.
C27_Witness ==
    /\ pc = "done"
    /\ \E i \in Indices :
          /\ ReverseStatuses[i] = Discarded
          /\ SenderOf(i) = None
          /\ IsRejected(i)
    /\ \E j \in Indices : ReverseStatuses[j] = Accepted /\ IsRejected(j)

(***************************************************************************)
(* C28: a transaction the reverse loop accepted ends up rejected if and    *)
(* only if it has a sender and some transaction at a lower index with the  *)
(* same sender was discarded by the reverse loop (equivalently: is         *)
(* rejected); a transaction without a sender keeps the status the reverse  *)
(* loop gave it, and the set of discarded senders holds only the senders   *)
(* of discarded transactions that have one.                                *)
(***************************************************************************)
\* Some transaction below i with the sender of i has status Discarded in st.
LowerOfSenderDiscarded(i, st) ==
    /\ IsSome(SenderOf(i))
    /\ \E k \in 0..(i - 1) : SenderOf(k) = SenderOf(i) /\ st[k] = Discarded

C28_RejectedWithCause ==
    pc = "done" =>
        LET rs == ReverseStatuses
        IN \A i \in Indices :
              /\ rs[i] = Accepted =>
                    /\ IsRejected(i) <=> LowerOfSenderDiscarded(i, rs)
                    /\ IsRejected(i) <=> LowerOfSenderDiscarded(i, txn_statuses)
                    /\ IsAccepted(i) <=> ~IsRejected(i)
              /\ SenderOf(i) = None =>
                    /\ txn_statuses[i] = rs[i]
                    /\ IsRejected(i) <=> rs[i] = Discarded

C28_DiscardedSenders ==
    pc = "sender" =>
        LET rs == ReverseStatuses
        IN discarded_senders =
              {Unwrap(SenderOf(k)) : k \in {n \in 0..(index - 1) :
                  IsSome(SenderOf(n)) /\ rs[n] = Discarded}}

C28_NoDiscardWithoutCause == C28_RejectedWithCause /\ C28_DiscardedSenders

\* A finished run in which a transaction without a sender was rejected, a later
\* transaction accepted by the reverse loop was rejected for its sender, and a
\* transaction with another sender was accepted.
C28_Witness ==
    /\ pc = "done"
    /\ \E k, i, j \in Indices :
          /\ k < i
          /\ SenderOf(k) = None
          /\ IsRejected(k)
          /\ ReverseStatuses[i] = Accepted
          /\ IsRejected(i)
          /\ IsAccepted(j)
          /\ IsSome(SenderOf(j))
          /\ SenderOf(j) # SenderOf(i)

(***************************************************************************)
(* C29: for two transactions i < j joined by a dependency edge (a write    *)
(* hint of i is a read or write hint of j) that lie in different shards,   *)
(* partition never returns with the later one, j, accepted and the earlier *)
(* one, i, rejected.                                                       *)
(***************************************************************************)
ShardOf(i) == get_shard_for_index(TxnsPerShard(NumTxns, num_shards), i)

\* i < j are joined by an edge and lie in different shards.
CrossShardEdge(i, j) ==
    /\ i < j
    /\ Conflicts(TxnAt(transactions, i), TxnAt(transactions, j))
    /\ ShardOf(i) # ShardOf(j)

C30_AfterSenderPass ==
    pc = "done" =>
        \A i, j \in Indices :
            (/\ i < j
             /\ Conflicts(TxnAt(transactions, i), TxnAt(transactions, j))
             /\ IsAccepted(i)
             /\ IsAccepted(j))
            => /\ ShardOf(i) = ShardOf(j)
               /\ ShardKeysOf(accpeted_transactions, i) = ShardKeysOf(accpeted_transactions, j)

C30_AfterReversePass ==
    pc \in {"sender", "emit"} =>
        \A i, j \in Indices :
            (/\ i < j
             /\ Conflicts(TxnAt(transactions, i), TxnAt(transactions, j))
             /\ txn_statuses[i] = Accepted
             /\ txn_statuses[j] = Accepted)
            => ShardOf(i) = ShardOf(j)

C30_NoCrossShardEdgeAccepted == C30_AfterSenderPass /\ C30_AfterReversePass

\* A finished run on several shards with an edge between two accepted
\* transactions of one shard and a rejected transaction.
C30_Witness ==
    /\ pc = "done"
    /\ num_shards >= 2
    /\ \E i, j \in Indices :
          /\ i < j
          /\ Conflicts(TxnAt(transactions, i), TxnAt(transactions, j))
          /\ IsAccepted(i) /\ IsAccepted(j)
    /\ \E k \in Indices : IsRejected(k) /\ ShardOf(k) >= 1

(***************************************************************************)
(* The store under the calls that change it, with no read recorded: the    *)
(* reads are evaluated on the states before and after each call.           *)
(***************************************************************************)
NextMutations ==
    \/ \E key \in Keys, version \in Versions, value \in WriteOps :
          WriteCall(key, version, value)
    \/ \E key \in Keys, txn_idx \in TxnIdxs, delta \in DeltaOps :
          AddDeltaCall(key, txn_idx, delta)
    \/ \E key \in Keys, txn_idx \in TxnIdxs : MarkEstimateCall(key, txn_idx)
    \/ \E key \in Keys, txn_idx \in TxnIdxs : DeleteCall(key, txn_idx)
    \/ \E key \in Keys, descriptor \in Descriptors, executable \in Executables :
          StoreExecutableCall(key, descriptor, executable)
    \/ ReuseCodeCache
    \/ DropCodeCache

SpecMutations == InitStore /\ [][NextMutations]_vars

(***************************************************************************)
(* C31: facade routing.  write, mark_estimate and delete on key k act on   *)
(* the code half if and only if k is a module path and on the data half    *)
(* otherwise: the call changes nothing but the entries of k in that half,  *)
(* a write leaves its entry there, and mark_estimate and delete panic      *)
(* exactly when that half has no entry at (k, i).  Hence a write under a   *)
(* module-path key changes the result of no fetch_data and a write under a *)
(* data key the result of no fetch_code.                                   *)
(***************************************************************************)
\* The step changes nothing outside the entries of key in the half key is
\* routed to, and no fetch through the other half sees it.
OnlyRoutedHalfChanges(key) ==
    IF module_path(key) # None
    THEN /\ data' = data
         /\ code'.executables = code.executables
         /\ \A k2 \in Keys \ {key} : code'.entries[k2] = code.entries[k2]
         /\ \A k2 \in Keys, t \in FetchIdxs : fetch_data(k2, t)' = fetch_data(k2, t)
    ELSE /\ code' = code
         /\ \A k2 \in Keys \ {key} : data'[k2] = data[k2]
         /\ \A k2 \in Keys, t \in FetchIdxs : fetch_code(k2, t)' = fetch_code(k2, t)

C31_WriteRouted ==
    \A key \in Keys, version \in Versions, op \in WriteOps :
        WriteCall(key, version, op) =>
            /\ OnlyRoutedHalfChanges(key)
            /\ ~panicked'
            /\ version[1] \in DOMAIN EntriesOf(key)'
            /\ EntriesOf(key)'[version[1]].content = op

C31_MarkEstimateRouted ==
    \A key \in Keys, i \in TxnIdxs :
        MarkEstimateCall(key, i) =>
            /\ OnlyRoutedHalfChanges(key)
            /\ panicked' <=> i \notin DOMAIN EntriesOf(key)
            /\ ~panicked' => EntriesOf(key)'[i].flag = Estimate

C31_DeleteRouted ==
    \A key \in Keys, i \in TxnIdxs :
        DeleteCall(key, i) =>
            /\ OnlyRoutedHalfChanges(key)
            /\ panicked' <=> i \notin DOMAIN EntriesOf(key)
            /\ i \notin DOMAIN EntriesOf(key)'

C31_FacadeRouting ==
    [][C31_WriteRouted /\ C31_MarkEstimateRouted /\ C31_DeleteRouted]_vars

\* The code half holds a module written under a module-path key and the data
\* half an entry of a data key that was flagged Estimate; neither half holds
\* an entry of the other's key, and the fetch through it finds nothing.
C31_Witness ==
    \E mkey \in ModuleKeys, dkey \in DataKeys :
        /\ \E i \in DOMAIN code.entries[mkey] :
              code.entries[mkey][i].content.kind = "Value"
        /\ data[mkey] = EmptyMap
        /\ fetch_data(mkey, MaxTxnIdx + 1) = NotFound
        /\ \E i \in DOMAIN data[dkey] : data[dkey][i].flag = Estimate
        /\ code.entries[dkey] = EmptyMap
        /\ fetch_code(dkey, MaxTxnIdx + 1) = NotFound

(***************************************************************************)
(* C32: reads never mutate the store.  A fetch_data or fetch_code, whatever *)
(* it returns (a value, NotFound, Dependency, DeltaApplicationFailure or   *)
(* an unresolved sum of deltas), leaves both halves and the panic flag as  *)
(* they were, so the same fetch made again right after it, or right after  *)
(* other fetches, returns the same result.                                 *)
(***************************************************************************)
\* What the read op(key, txn_idx) returns in the present state.
ReadResult(op, key, txn_idx) ==
    IF op = "fetch_data" THEN fetch_data(key, txn_idx) ELSE fetch_code(key, txn_idx)

\* The step was a read op(key, txn_idx): the store is as before, the read made
\* again after the step returns what the caller got, and the read that was
\* made before this one returns after the step what it returns before it.
ReadLeavesStore(op, key, txn_idx) ==
    /\ data' = data
    /\ code' = code
    /\ panicked' = panicked
    /\ ops' = ops
    /\ ReadResult(op, key, txn_idx)' = fetched'.result
    /\ fetched.op # "none" =>
          \A op0 \in {fetched.op}, key0 \in {fetched.key}, idx0 \in {fetched.txn_idx} :
              ReadResult(op0, key0, idx0)' = ReadResult(op0, key0, idx0)

\* The caller of the step holds the result of the read op(key, txn_idx).
Records(op, key, txn_idx) ==
    /\ fetched'.op = op
    /\ fetched'.key = key
    /\ fetched'.txn_idx = txn_idx

\* (a read hands its caller a record of its own arguments, so a step is only
\* compared with the read its record names)
C32_FetchStep ==
    \A key \in Keys, txn_idx \in FetchIdxs :
        /\ (Records("fetch_data", key, txn_idx) /\ FetchDataCall(key, txn_idx))
               => ReadLeavesStore("fetch_data", key, txn_idx)
        /\ (Records("fetch_code", key, txn_idx) /\ FetchCodeCall(key, txn_idx))
               => ReadLeavesStore("fetch_code", key, txn_idx)

====
